---- MODULE Spec2Model ----
(***************************************************************************)
(* RocketEngine: the World (component tables, entity allocator, physics    *)
(* bridge), the query layer, the Scheduler and the editor's scene loading, *)
(* as state machines.  f32 values are modelled as integers.                *)
(***************************************************************************)
EXTENDS Integers, Sequences, FiniteSets, TLC

VARIABLES
    world,              \* the World (src/src/world.rs:7-32), a record of its fields
    \* ---- Scheduler (src/src/systems/scheduler.rs:38-40) and one update call
    systems,            \* Scheduler.systems, in registration order
    pc,                 \* position of the running Scheduler::update call
    idx,                \* index of the stage the loop of update runs next
    cur_dt,             \* the dt argument of the running update call
    calls,              \* stage invocations of the current update call
    reported,           \* the stage a failure report names ("none": no report)
    ticks,              \* update calls made so far
    \* ---- Query layer
    query_out,          \* what the last MovementQuery iteration yielded
    \* ---- Editor (src/src/editor.rs:10-29)
    grid_entities,      \* GridEditor.grid_entities: cell -> Entity
    root_entities,      \* EntityHierarchy.root_entities
    selected_entity,    \* EditorState.selected_entity
    current_scene_path, \* EditorApp.current_scene_path
    parent_child_map,   \* EntityHierarchy.parent_child_map
    game_state,         \* EditorApp.game_state
    \* ---- observation of the run (history, not program state)
    created,            \* identifiers returned by create_entity, in call order
    last_op,            \* the operation that produced the current state
    solved,             \* bodies as the solver left them in the last step_physics
    tick_start          \* the World at the start of the current update call

schedVars == <<systems, pc, idx, cur_dt, calls, reported, ticks>>
editorVars == <<grid_entities, root_entities, selected_entity, current_scene_path,
                parent_child_map, game_state>>
vars == <<world, schedVars, query_out, editorVars, created, last_op, solved,
          tick_start>>

-----------------------------------------------------------------------------
(* Bounds of the model *)

MaxEntities == 2
MaxBodies == 2
MaxStages == 3
MaxTicks == 2
MaxQueryIds == 3
MaxSceneEntities == 2

\* identifiers the operations are called with: those create_entity can
\* issue within the bound (an operation may name one before it is issued)
EntityIds == 0..(MaxEntities - 1)

(* Program constants *)

SCREEN_WIDTH == 800
SCREEN_HEIGHT == 600
MARGIN == 16

\* GridSettings::default().grid_size
grid_size == 32

\* World::new: integration_parameters.dt = 1.0 / 60.0.  Times are counted
\* in sixtieths of a second
integration_parameters_dt == 1

\* u32::MAX, the largest Entity.  An identifier is held as the signed
\* reading of its 32 bits: 0 .. 2^31 - 1 are themselves and u32::MAX is
\* -1, so that + 1 is the addition modulo 2^32 of the identifier type
ENTITY_MAX == -1

-----------------------------------------------------------------------------
(* Values *)

Vec(a, b) == [x |-> a, y |-> b]

\* translations the callers and the solver produce: one inside the play
\* field and one beyond each margin (left, right+bottom, top)
Pts == {Vec(400, 300), Vec(10, 300), Vec(790, 590), Vec(400, 10)}

\* velocities the callers set
Vels == {Vec(-5, -5), Vec(5, 5)}

\* the values of the runs that exercise the tables and the handle maps
InsidePts == {Vec(400, 300)}
OneVel == {Vec(5, 5)}

\* the first identifier create_entity issues
FirstId == {0}

ZeroVec == Vec(0, 0)

\* Option<T>
None == <<>>
Some(v) == <<v>>
IsSome(o) == o # <<>>
Unwrap(o) == o[1]

\* HashMap::new()
EmptyMap == [k \in {} |-> 0]

\* HashMap::insert
Insert(f, k, v) == [i \in (DOMAIN f) \cup {k} |-> IF i = k THEN v ELSE f[i]]

\* HashMap::remove
Remove(f, k) == [i \in (DOMAIN f) \ {k} |-> f[i]]

\* the last element of a sequence
Last(seq) == seq[Len(seq)]

\* f32::abs
Abs(v) == IF v < 0 THEN -v ELSE v

\* a rigid body of the authority: what the World reads and writes of it
Body(t, v) == [translation |-> t, linvel |-> v]

\* what the solver can leave a body as, over translations P and velocities V
BodyStates(P, V) == {Body(t, v) : t \in P, v \in V \cup {ZeroVec}}

\* the single Sprite / TextureSprite value the callers add
TheSprite == [color |-> "red", size |-> 32]
TheTextureSprite == [atlas_name |-> "player", scale |-> 1]

-----------------------------------------------------------------------------
(* World: src/src/world.rs *)

\* World::new
World_new ==
    [next_entity_id  |-> 0,
     positions       |-> EmptyMap,
     velocities      |-> EmptyMap,
     sprites         |-> EmptyMap,
     texture_sprites |-> EmptyMap,
     sprite_atlas    |-> "None",
     physics_world   |-> EmptyMap,
     next_handle     |-> 1,
     entity_to_body  |-> EmptyMap,
     body_to_entity  |-> EmptyMap]

\* World::set_sprite_atlas
set_sprite_atlas(w, atlas) == [w EXCEPT !.sprite_atlas = atlas]

\* a < b as u32 values
U32Less(a, b) == IF (a < 0) = (b < 0) THEN a < b ELSE b < 0

\* World::create_entity: the identifier returned is w.next_entity_id; the
\* + 1 is the wrapping addition of a build without overflow checks (the
\* build with them panics at ENTITY_MAX, see Call_create_entity_overflows)
create_entity(w) == [w EXCEPT !.next_entity_id = w.next_entity_id + 1]

\* add_position that keeps the row the entity already has
add_position_keep(w, entity, position) ==
    IF entity \in DOMAIN w.positions THEN w
    ELSE [w EXCEPT !.positions = Insert(w.positions, entity, position)]

\* World::add_position
add_position(w, entity, position) ==
    [w EXCEPT !.positions = Insert(w.positions, entity, position)]

\* World::add_velocity
add_velocity(w, entity, velocity) ==
    [w EXCEPT !.velocities = Insert(w.velocities, entity, velocity)]

\* World::add_sprite
add_sprite(w, entity, sprite) ==
    [w EXCEPT !.sprites = Insert(w.sprites, entity, sprite)]

\* World::add_texture_sprite
add_texture_sprite(w, entity, texture_sprite) ==
    [w EXCEPT !.texture_sprites = Insert(w.texture_sprites, entity, texture_sprite)]

\* add_physics_body that places the body at the entity's Position row
\* when it has one
add_physics_body_at_row(w, entity, position) ==
    LET initial_velocity == IF entity \in DOMAIN w.velocities
                            THEN w.velocities[entity] ELSE ZeroVec
        body_handle == w.next_handle
        at == IF entity \in DOMAIN w.positions THEN w.positions[entity] ELSE position
    IN  [w EXCEPT
           !.physics_world  = Insert(w.physics_world, body_handle,
                                     Body(at, initial_velocity)),
           !.next_handle    = w.next_handle + 1,
           !.entity_to_body = Insert(w.entity_to_body, entity, body_handle),
           !.body_to_entity = Insert(w.body_to_entity, body_handle, entity)]

\* World::add_physics_body: the body's handle is the arena's next handle
add_physics_body(w, entity, position) ==
    LET initial_velocity == IF entity \in DOMAIN w.velocities
                            THEN w.velocities[entity] ELSE ZeroVec
        body_handle == w.next_handle
    IN  [w EXCEPT
           !.physics_world  = Insert(w.physics_world, body_handle,
                                     Body(position, initial_velocity)),
           !.next_handle    = w.next_handle + 1,
           !.entity_to_body = Insert(w.entity_to_body, entity, body_handle),
           !.body_to_entity = Insert(w.body_to_entity, body_handle, entity)]

\* World::get_position / get_velocity / get_sprite / get_texture_sprite
get_position(w, entity) ==
    IF entity \in DOMAIN w.positions THEN Some(w.positions[entity]) ELSE None
get_velocity(w, entity) ==
    IF entity \in DOMAIN w.velocities THEN Some(w.velocities[entity]) ELSE None
get_sprite(w, entity) ==
    IF entity \in DOMAIN w.sprites THEN Some(w.sprites[entity]) ELSE None
get_texture_sprite(w, entity) ==
    IF entity \in DOMAIN w.texture_sprites
    THEN Some(w.texture_sprites[entity]) ELSE None

\* World::get_position_mut, and a write through the reference it returns
write_position(w, entity, position) ==
    IF entity \in DOMAIN w.positions
    THEN [w EXCEPT !.positions[entity] = position]
    ELSE w

\* World::get_velocity_mut, and a write through the reference it returns
write_velocity(w, entity, velocity) ==
    IF entity \in DOMAIN w.velocities
    THEN [w EXCEPT !.velocities[entity] = velocity]
    ELSE w

\* set_physics_velocity that writes the Velocity row as well
set_physics_velocity_cached(w, entity, velocity) ==
    IF entity \in DOMAIN w.entity_to_body
    THEN LET body_handle == w.entity_to_body[entity]
         IN  IF body_handle \in DOMAIN w.physics_world
             THEN [w EXCEPT !.physics_world[body_handle].linvel = velocity,
                            !.velocities = Insert(w.velocities, entity, velocity)]
             ELSE w
    ELSE w

\* World::set_physics_velocity
set_physics_velocity(w, entity, velocity) ==
    IF entity \in DOMAIN w.entity_to_body
    THEN LET body_handle == w.entity_to_body[entity]
         IN  IF body_handle \in DOMAIN w.physics_world
             THEN [w EXCEPT !.physics_world[body_handle].linvel = velocity]
             ELSE w
    ELSE w

\* sync_positions_from_physics that copies the velocities only
sync_velocities_only(w) ==
    LET Synced(e) == /\ e \in DOMAIN w.entity_to_body
                     /\ w.entity_to_body[e] \in DOMAIN w.physics_world
        body(e) == w.physics_world[w.entity_to_body[e]]
    IN  [w EXCEPT
           !.velocities = [e \in DOMAIN w.velocities |->
                             IF Synced(e) THEN body(e).linvel
                             ELSE w.velocities[e]]]

\* sync_positions_from_physics that gives every entity with a body a
\* Position and a Velocity row
sync_positions_inserting(w) ==
    LET Synced == {e \in DOMAIN w.entity_to_body :
                      w.entity_to_body[e] \in DOMAIN w.physics_world}
        body(e) == w.physics_world[w.entity_to_body[e]]
    IN  [w EXCEPT
           !.positions  = [e \in DOMAIN w.positions \cup Synced |->
                             IF e \in Synced THEN body(e).translation
                             ELSE w.positions[e]],
           !.velocities = [e \in DOMAIN w.velocities \cup Synced |->
                             IF e \in Synced THEN body(e).linvel
                             ELSE w.velocities[e]]]

\* World::sync_positions_from_physics
sync_positions_from_physics(w) ==
    LET Synced(e) == /\ e \in DOMAIN w.entity_to_body
                     /\ w.entity_to_body[e] \in DOMAIN w.physics_world
        body(e) == w.physics_world[w.entity_to_body[e]]
    IN  [w EXCEPT
           !.positions  = [e \in DOMAIN w.positions |->
                             IF Synced(e) THEN body(e).translation
                             ELSE w.positions[e]],
           !.velocities = [e \in DOMAIN w.velocities |->
                             IF Synced(e) THEN body(e).linvel
                             ELSE w.velocities[e]]]

\* BoundX with the velocity component negated instead of pointed inward
BoundX_negate(b) ==
    IF b.translation.x < MARGIN
    THEN [b EXCEPT !.translation.x = MARGIN, !.linvel.x = -b.linvel.x]
    ELSE IF b.translation.x > SCREEN_WIDTH - MARGIN
    THEN [b EXCEPT !.translation.x = SCREEN_WIDTH - MARGIN,
                   !.linvel.x = -b.linvel.x]
    ELSE b

\* World::apply_boundary_constraints, the x coordinate of one body
BoundX(b) ==
    IF b.translation.x < MARGIN
    THEN [b EXCEPT !.translation.x = MARGIN, !.linvel.x = Abs(b.linvel.x)]
    ELSE IF b.translation.x > SCREEN_WIDTH - MARGIN
    THEN [b EXCEPT !.translation.x = SCREEN_WIDTH - MARGIN,
                   !.linvel.x = -Abs(b.linvel.x)]
    ELSE b

\* BoundY without the bottom margin
BoundY_top_only(b) ==
    IF b.translation.y < MARGIN
    THEN [b EXCEPT !.translation.y = MARGIN, !.linvel.y = Abs(b.linvel.y)]
    ELSE b

\* World::apply_boundary_constraints, the y coordinate of one body
BoundY(b) ==
    IF b.translation.y < MARGIN
    THEN [b EXCEPT !.translation.y = MARGIN, !.linvel.y = Abs(b.linvel.y)]
    ELSE IF b.translation.y > SCREEN_HEIGHT - MARGIN
    THEN [b EXCEPT !.translation.y = SCREEN_HEIGHT - MARGIN,
                   !.linvel.y = -Abs(b.linvel.y)]
    ELSE b

\* the handles entity_to_body maps an entity to
MappedHandles(w) == {w.entity_to_body[e] : e \in DOMAIN w.entity_to_body}

\* World::apply_boundary_constraints
apply_boundary_constraints(w) ==
    [w EXCEPT !.physics_world =
        [h \in DOMAIN w.physics_world |->
            IF h \in MappedHandles(w)
            THEN BoundY(BoundX(w.physics_world[h]))
            ELSE w.physics_world[h]]]

\* PhysicsPipeline::step, the external solver: every body of the set may
\* end anywhere in B, or stay as it is
SolverOutcomes(w, B) ==
    {sv \in [DOMAIN w.physics_world ->
                B \cup {w.physics_world[h] : h \in DOMAIN w.physics_world}] :
        \A h \in DOMAIN sv : sv[h] \in B \/ sv[h] = w.physics_world[h]}

\* World::step_physics with the solver leaving the bodies as sv
\* (check_collisions only prints)
step_physics(w, sv) ==
    apply_boundary_constraints(
        sync_positions_from_physics([w EXCEPT !.physics_world = sv]))

\* World::entity_count
entity_count(w) == w.next_entity_id

\* RigidBodySet::remove with the maps' entries, as remove_entity and the
\* editor's remove_physics_body both do
RemoveBody(w, entity) ==
    IF entity \in DOMAIN w.entity_to_body
    THEN LET body_handle == w.entity_to_body[entity]
         IN  [w EXCEPT
                !.physics_world  = Remove(w.physics_world, body_handle),
                !.entity_to_body = Remove(w.entity_to_body, entity),
                !.body_to_entity = Remove(w.body_to_entity, body_handle)]
    ELSE w

\* remove_entity that hands the removed identifier back to the allocator
remove_entity_recycle(w, entity) ==
    LET w1 == RemoveBody(w, entity)
    IN  [w1 EXCEPT
           !.next_entity_id  = IF entity < w.next_entity_id
                               THEN entity ELSE w.next_entity_id,
           !.positions       = Remove(w1.positions, entity),
           !.velocities      = Remove(w1.velocities, entity),
           !.sprites         = Remove(w1.sprites, entity),
           !.texture_sprites = Remove(w1.texture_sprites, entity)]

\* World::remove_entity
remove_entity(w, entity) ==
    LET w1 == RemoveBody(w, entity)
    IN  [w1 EXCEPT
           !.positions       = Remove(w1.positions, entity),
           !.velocities      = Remove(w1.velocities, entity),
           !.sprites         = Remove(w1.sprites, entity),
           !.texture_sprites = Remove(w1.texture_sprites, entity)]

\* EditorApp::remove_physics_body
remove_physics_body(w, entity) == RemoveBody(w, entity)

-----------------------------------------------------------------------------
(* Query layer: src/src/systems/query.rs *)

\* the orders in which a hash map can iterate the keys S
Orders(S) ==
    {o \in [1..Cardinality(S) -> S] : \A k \in S : \E i \in DOMAIN o : o[i] = k}

\* PositionVelocityQuery::next, from the i-th key of the iteration on:
\* keys without both components are skipped
RECURSIVE QueryFrom(_, _, _)
QueryFrom(w, order, i) ==
    IF i > Len(order) THEN <<>>
    ELSE LET entity == order[i]
             hit == entity \in DOMAIN w.positions /\ entity \in DOMAIN w.velocities
         IN  (IF hit
              THEN <<[entity   |-> entity,
                      position |-> w.positions[entity],
                      velocity |-> w.velocities[entity]]>>
              ELSE <<>>) \o QueryFrom(w, order, i + 1)

\* the iteration ends at the first key that lacks a component
RECURSIVE QueryStopFrom(_, _, _)
QueryStopFrom(w, order, i) ==
    IF i > Len(order) THEN <<>>
    ELSE LET entity == order[i]
             hit == entity \in DOMAIN w.positions /\ entity \in DOMAIN w.velocities
         IN  IF hit
             THEN <<[entity   |-> entity,
                     position |-> w.positions[entity],
                     velocity |-> w.velocities[entity]]>>
                  \o QueryStopFrom(w, order, i + 1)
             ELSE <<>>

MovementQuery_stop(w, order) == QueryStopFrom(w, order, 1)

\* MovementQuery::query, iterated to its end; order is the order in which
\* positions.keys() yields the keys
MovementQuery(w, order) == QueryFrom(w, order, 1)

\* RenderableMovementQuery::next, from the i-th key of the iteration on:
\* keys without all three components are skipped
RECURSIVE RenderableFrom(_, _, _)
RenderableFrom(w, order, i) ==
    IF i > Len(order) THEN <<>>
    ELSE LET entity == order[i]
             hit == /\ entity \in DOMAIN w.positions
                    /\ entity \in DOMAIN w.velocities
                    /\ entity \in DOMAIN w.sprites
         IN  (IF hit
              THEN <<[entity   |-> entity,
                      position |-> w.positions[entity],
                      velocity |-> w.velocities[entity],
                      sprite   |-> w.sprites[entity]]>>
              ELSE <<>>) \o RenderableFrom(w, order, i + 1)

\* the sprites table is not asked: a key with a Position and a Velocity
\* is yielded, with its sprite if it has one
RenderableQuery_two(w, order) ==
    LET q == QueryFrom(w, order, 1)
    IN  [i \in 1..Len(q) |->
            [entity   |-> q[i].entity,
             position |-> q[i].position,
             velocity |-> q[i].velocity,
             sprite   |-> IF q[i].entity \in DOMAIN w.sprites
                          THEN w.sprites[q[i].entity]
                          ELSE [color |-> "none", size |-> 0]]]

\* RenderableQuery::query, iterated to its end; order is the order in
\* which positions.keys() yields the keys
RenderableQuery(w, order) == RenderableFrom(w, order, 1)

-----------------------------------------------------------------------------
(* Stages: src/src/systems/{sync,physics,input,movement}.rs *)

\* VelocitySyncSystem::update
VelocitySyncSystem_update(w) ==
    LET Pushed(h) == {e \in DOMAIN w.velocities :
                        e \in DOMAIN w.entity_to_body /\ w.entity_to_body[e] = h}
    IN  [w EXCEPT !.physics_world =
            [h \in DOMAIN w.physics_world |->
                IF Pushed(h) # {}
                THEN [w.physics_world[h] EXCEPT
                        !.linvel = w.velocities[CHOOSE e \in Pushed(h) : TRUE]]
                ELSE w.physics_world[h]]]

\* the solver is stepped by the dt of the update call
PhysicsSystem_solver_dt_frame(dt) == dt

\* PhysicsSystem::update and World::step_physics: the time the solver is
\* advanced by when the stage is handed dt (the stage drops its _dt and
\* the pipeline is given &self.integration_parameters)
PhysicsSystem_solver_dt(dt) == integration_parameters_dt

\* PhysicsSystem::update: dt is not used
PhysicsSystem_update(w, sv) == step_physics(w, sv)

\* InputSystem::update
InputSystem_update(w) == w

\* MovementSystem::update_with_queries, second pass: the updates applied
\* in turn from the i-th on
RECURSIVE ApplyUpdates(_, _, _)
ApplyUpdates(pos, updates, i) ==
    IF i > Len(updates) THEN pos
    ELSE LET u == updates[i]
         IN  ApplyUpdates(IF u.entity \in DOMAIN pos
                          THEN [pos EXCEPT ![u.entity] = Vec(u.new_x, u.new_y)]
                          ELSE pos,
                          updates, i + 1)

\* the first update alone is applied
MovementSystem_update_first(w, dt, order) ==
    LET q == MovementQuery(w, order)
    IN  IF q = <<>> THEN w
        ELSE [w EXCEPT !.positions[q[1].entity] =
                 Vec(q[1].position.x + q[1].velocity.x * dt,
                     q[1].position.y + q[1].velocity.y * dt)]

\* MovementSystem::update_with_queries
MovementSystem_update(w, dt, order) ==
    LET q == MovementQuery(w, order)
        updates == [i \in 1..Len(q) |->
                      [entity |-> q[i].entity,
                       new_x  |-> q[i].position.x + q[i].velocity.x * dt,
                       new_y  |-> q[i].position.y + q[i].velocity.y * dt]]
    IN  [w EXCEPT !.positions = ApplyUpdates(w.positions, updates, 1)]

\* QueryDemoSystem::update_with_queries: it only counts
QueryDemoSystem_update(w) == w

\* a stage of a test: it sets Velocity(0) to (5, 0) through add_velocity
StageAVelocity == Vec(5, 0)
SetVelocityStage_update(w) == add_velocity(w, 0, StageAVelocity)

-----------------------------------------------------------------------------
(* Scheduler: src/src/systems/scheduler.rs *)

\* the System implementations add_system is given, by name(): the
\* repository's, a test's velocity-setting stage and a stage that panics
SystemNames ==
    {"VelocitySyncSystem", "PhysicsSystem", "InputSystem",
     "SetVelocityStage", "FailingStage"}

\* the QuerySystem implementations add_query_system is given
QuerySystemNames == {"MovementSystem", "QueryDemoSystem"}

\* a registered stage: a boxed System, or a QuerySystem in its adapter;
\* slot tells the boxes of equal name apart (its place in the Vec when
\* it was pushed)
Stage(name, adapter, slot) == [name |-> name, adapter |-> adapter, slot |-> slot]

\* Scheduler::add_system
add_system(sys, name) == Append(sys, Stage(name, FALSE, Len(sys) + 1))

\* Scheduler::add_query_system
add_query_system(sys, name) == Append(sys, Stage(name, TRUE, Len(sys) + 1))

\* Scheduler::system_count
system_count(sys) == Len(sys)

\* Scheduler::system_names
system_names(sys) == [i \in 1..Len(sys) |-> sys[i].name]

\* the stages taken from the last registered to the first
NextSystem_reversed(sys, i) == sys[Len(sys) + 1 - i]

\* Scheduler::update, the i-th iteration of `for system in &mut self.systems`
NextSystem(sys, i) == sys[i]

\* the loop leaves out the last stage
LoopDone_early(sys, i) == i >= Len(sys)

\* Scheduler::update, the end of the loop
LoopDone(sys, i) == i > Len(sys)

\* Scheduler::update and QuerySystemAdapter::update: the dt handed on
StageDt(dt) == dt

\* System::update of the stage s on the World w; sv and order are what
\* the solver and the hash map's iteration do in this call
StageUpdate(s, w, dt, sv, order) ==
    CASE s.name = "VelocitySyncSystem" -> VelocitySyncSystem_update(w)
      [] s.name = "PhysicsSystem"      -> PhysicsSystem_update(w, sv)
      [] s.name = "InputSystem"        -> InputSystem_update(w)
      [] s.name = "SetVelocityStage"   -> SetVelocityStage_update(w)
      [] s.name = "MovementSystem"     -> MovementSystem_update(w, dt, order)
      [] s.name = "QueryDemoSystem"    -> QueryDemoSystem_update(w)
      [] OTHER                         -> w

-----------------------------------------------------------------------------
(* Scenes: src/src/scene.rs *)

\* EntityData
EntityData(name, position, velocity, texture_sprite, physics_body) ==
    [name |-> name, position |-> position, velocity |-> velocity,
     texture_sprite |-> texture_sprite, physics_body |-> physics_body]

\* PhysicsBodyData of the scenes: a Dynamic body of half a grid cell
TheBodyData == [size |-> grid_size \div 2, body_type |-> "Dynamic"]

\* format!("entity_{}", index): the pair <<"entity", i>> is the string
\* "entity_<i>", whether generated or given as a name in the file
IndexName(index) == <<"entity", index>>

\* spawn_scene that creates the body before it applies the velocity
RECURSIVE SpawnFrom_body_first(_, _, _)
SpawnFrom_body_first(entities, i, r) ==
    IF i > Len(entities) THEN r
    ELSE LET entity_data == entities[i]
             entity == r.world.next_entity_id
             w0 == create_entity(r.world)
             w1 == IF IsSome(entity_data.position)
                   THEN add_position(w0, entity, Unwrap(entity_data.position))
                   ELSE w0
             position == IF IsSome(entity_data.position)
                         THEN Unwrap(entity_data.position) ELSE ZeroVec
             w2 == IF IsSome(entity_data.physics_body)
                   THEN add_physics_body(w1, entity, position)
                   ELSE w1
             w3 == IF IsSome(entity_data.velocity)
                   THEN add_velocity(w2, entity, Unwrap(entity_data.velocity))
                   ELSE w2
             w4 == IF IsSome(entity_data.texture_sprite)
                   THEN add_texture_sprite(w3, entity,
                                           Unwrap(entity_data.texture_sprite))
                   ELSE w3
             entity_name == IF IsSome(entity_data.name)
                            THEN Unwrap(entity_data.name)
                            ELSE IndexName(i - 1)
         IN  SpawnFrom_body_first(entities, i + 1,
                       [world |-> w4,
                        entity_map |-> Insert(r.entity_map, entity_name, entity)])

\* SceneLoader::spawn_scene, the entities from the i-th on; r holds the
\* World and the entity_map built so far
RECURSIVE SpawnFrom(_, _, _)
SpawnFrom(entities, i, r) ==
    IF i > Len(entities) THEN r
    ELSE LET entity_data == entities[i]
             entity == r.world.next_entity_id
             w0 == create_entity(r.world)
             w1 == IF IsSome(entity_data.position)
                   THEN add_position(w0, entity, Unwrap(entity_data.position))
                   ELSE w0
             w2 == IF IsSome(entity_data.velocity)
                   THEN add_velocity(w1, entity, Unwrap(entity_data.velocity))
                   ELSE w1
             w3 == IF IsSome(entity_data.texture_sprite)
                   THEN add_texture_sprite(w2, entity,
                                           Unwrap(entity_data.texture_sprite))
                   ELSE w2
             position == IF IsSome(entity_data.position)
                         THEN Unwrap(entity_data.position) ELSE ZeroVec
             w4 == IF IsSome(entity_data.physics_body)
                   THEN add_physics_body(w3, entity, position)
                   ELSE w3
             entity_name == IF IsSome(entity_data.name)
                            THEN Unwrap(entity_data.name)
                            ELSE IndexName(i - 1)
         IN  SpawnFrom(entities, i + 1,
                       [world |-> w4,
                        entity_map |-> Insert(r.entity_map, entity_name, entity)])

\* SceneLoader::spawn_scene: the World after it and the entity_map returned
spawn_scene(scene, w) ==
    SpawnFrom(scene.entities, 1, [world |-> w, entity_map |-> EmptyMap])

-----------------------------------------------------------------------------
(* Scene files: the Serialize / Deserialize implementations of            *)
(* src/src/scene.rs.  An encoded value is the tree of serde's data model   *)
(* that the file format (RON or JSON) writes down and reads back; a        *)
(* decoder answers None where the code returns Err.                        *)

\* Option<T> in the data model: none, or some(tree)
SerNone == [kind |-> "none"]
SerSome(tree) == [kind |-> "some", tree |-> tree]

\* impl Serialize for Position / Velocity: the tuple (x, y)
Serialize_Vec(v) == [kind |-> "tuple", items |-> <<v.x, v.y>>]

\* impl Deserialize for Position / Velocity: from the tuple (f32, f32)
Deserialize_Vec(tree) ==
    IF tree.kind = "tuple" /\ Len(tree.items) = 2
    THEN Some(Vec(tree.items[1], tree.items[2]))
    ELSE None

\* TextureSprite written without its scale
Serialize_TextureSprite_noscale(ts) ==
    [kind |-> "struct", fields |-> [atlas_name |-> ts.atlas_name]]

\* impl Serialize for TextureSprite: a struct of atlas_name and scale
Serialize_TextureSprite(ts) ==
    [kind |-> "struct",
     fields |-> [atlas_name |-> ts.atlas_name, scale |-> ts.scale]]

\* impl Deserialize for TextureSprite (visit_map): atlas_name is required,
\* a missing scale is 1.0
Deserialize_TextureSprite(tree) ==
    IF tree.kind # "struct" \/ "atlas_name" \notin DOMAIN tree.fields
    THEN None
    ELSE Some([atlas_name |-> tree.fields.atlas_name,
               scale |-> IF "scale" \in DOMAIN tree.fields
                         THEN tree.fields.scale ELSE 1])

\* the variants of PhysicsBodyType
PhysicsBodyTypes ==
    {"Dynamic", "Fixed", "KinematicPositionBased", "KinematicVelocityBased"}

\* derived Serialize for PhysicsBodyData and PhysicsBodyType
Serialize_PhysicsBodyData(b) ==
    [kind |-> "struct",
     fields |-> [size |-> b.size,
                 body_type |-> [kind |-> "variant", name |-> b.body_type]]]

\* derived Deserialize for PhysicsBodyData and PhysicsBodyType
Deserialize_PhysicsBodyData(tree) ==
    IF \/ tree.kind # "struct"
       \/ {"size", "body_type"} \ DOMAIN tree.fields # {}
    THEN None
    ELSE IF \/ tree.fields.body_type.kind # "variant"
            \/ tree.fields.body_type.name \notin PhysicsBodyTypes
    THEN None
    ELSE Some([size |-> tree.fields.size,
               body_type |-> tree.fields.body_type.name])

\* a name or a description: a string
Serialize_String(text) == [kind |-> "string", text |-> text]
Deserialize_String(tree) ==
    IF tree.kind = "string" THEN Some(tree.text) ELSE None

\* derived Serialize for EntityData: a struct of five optional fields
Serialize_EntityData(d) ==
    [kind |-> "struct",
     fields |->
        [name |-> IF IsSome(d.name)
                  THEN SerSome(Serialize_String(Unwrap(d.name))) ELSE SerNone,
         position |-> IF IsSome(d.position)
                      THEN SerSome(Serialize_Vec(Unwrap(d.position))) ELSE SerNone,
         velocity |-> IF IsSome(d.velocity)
                      THEN SerSome(Serialize_Vec(Unwrap(d.velocity))) ELSE SerNone,
         texture_sprite |->
            IF IsSome(d.texture_sprite)
            THEN SerSome(Serialize_TextureSprite(Unwrap(d.texture_sprite)))
            ELSE SerNone,
         physics_body |->
            IF IsSome(d.physics_body)
            THEN SerSome(Serialize_PhysicsBodyData(Unwrap(d.physics_body)))
            ELSE SerNone]]

\* an optional field read back: Some(None) for none, Some(Some(v)) for a
\* value that decodes to v, None for one that does not decode
OptionField(tree, decoded) ==
    IF tree.kind = "none" THEN Some(None)
    ELSE IF IsSome(decoded) THEN Some(decoded) ELSE None

\* derived Deserialize for EntityData
Deserialize_EntityData(tree) ==
    LET f == tree.fields
        Inner(t) == IF t.kind = "some" THEN t.tree ELSE [kind |-> "none"]
        name == OptionField(f.name, Deserialize_String(Inner(f.name)))
        position == OptionField(f.position, Deserialize_Vec(Inner(f.position)))
        velocity == OptionField(f.velocity, Deserialize_Vec(Inner(f.velocity)))
        texture_sprite ==
            OptionField(f.texture_sprite,
                        Deserialize_TextureSprite(Inner(f.texture_sprite)))
        physics_body ==
            OptionField(f.physics_body,
                        Deserialize_PhysicsBodyData(Inner(f.physics_body)))
    IN  IF \A o \in {name, position, velocity, texture_sprite, physics_body} :
              IsSome(o)
        THEN Some(EntityData(Unwrap(name), Unwrap(position), Unwrap(velocity),
                             Unwrap(texture_sprite), Unwrap(physics_body)))
        ELSE None

\* Scene
Scene(name, description, entities) ==
    [name |-> name, description |-> description, entities |-> entities]

\* derived Serialize for Scene, as save_to_ron / save_to_json write it
Serialize_Scene(scene) ==
    [kind |-> "struct",
     fields |->
        [name |-> Serialize_String(scene.name),
         description |-> IF IsSome(scene.description)
                         THEN SerSome(Serialize_String(Unwrap(scene.description)))
                         ELSE SerNone,
         entities |-> [kind |-> "seq",
                       items |-> [i \in 1..Len(scene.entities) |->
                                    Serialize_EntityData(scene.entities[i])]]]]

\* derived Deserialize for Scene, as load_from_ron / load_from_json read it
Deserialize_Scene(tree) ==
    LET f == tree.fields
        name == Deserialize_String(f.name)
        description ==
            OptionField(f.description,
                        IF f.description.kind = "some"
                        THEN Deserialize_String(f.description.tree) ELSE None)
        entities == [i \in 1..Len(f.entities.items) |->
                        Deserialize_EntityData(f.entities.items[i])]
    IN  IF /\ IsSome(name)
           /\ IsSome(description)
           /\ \A i \in 1..Len(entities) : IsSome(entities[i])
        THEN Some(Scene(Unwrap(name), Unwrap(description),
                        [i \in 1..Len(entities) |-> Unwrap(entities[i])]))
        ELSE None

-----------------------------------------------------------------------------
(* Editor: src/src/editor.rs *)

\* the editor's own state: grid, hierarchy roots, selection, scene path
Editor(grid, roots, selected, path) ==
    [grid_entities |-> grid, root_entities |-> roots,
     selected_entity |-> selected, current_scene_path |-> path]

\* Vec::retain(|e| e != entity)
RECURSIVE Retain(_, _)
Retain(seq, entity) ==
    IF seq = <<>> THEN <<>>
    ELSE (IF Head(seq) = entity THEN <<>> ELSE <<Head(seq)>>)
         \o Retain(Tail(seq), entity)

\* the position edit that leaves the body where it is
draw_position_component_cache_only(w, entity, position) ==
    IF entity \in DOMAIN w.positions
    THEN [w EXCEPT !.positions[entity] = position]
    ELSE w

\* EditorApp::draw_position_component, a drag of the X / Y values to
\* position: the row is written and the body, if any, moved there
draw_position_component(w, entity, position) ==
    IF entity \in DOMAIN w.positions
    THEN LET w1 == [w EXCEPT !.positions[entity] = position]
         IN  IF /\ entity \in DOMAIN w.entity_to_body
                /\ w.entity_to_body[entity] \in DOMAIN w.physics_world
             THEN [w1 EXCEPT
                     !.physics_world[w.entity_to_body[entity]].translation = position]
             ELSE w1
    ELSE w

\* EditorApp::toggle_play_state, on the GameState Stopped / Playing / Paused
toggle_play_state(state) ==
    CASE state = "Stopped" -> "Playing"
      [] state = "Playing" -> "Paused"
      [] state = "Paused"  -> "Playing"

\* the frame simulates unless the game is stopped
FrameSimulates_unless_stopped(state) == state # "Stopped"

\* eframe::App::update of EditorApp, its first test: the frame runs the
\* scheduler
FrameSimulates(state) == state = "Playing"

\* clear_scene that leaves a World without the sprite atlas
clear_scene_drop_atlas(w) == World_new

\* EditorApp::clear_scene, the World it leaves: a new one that keeps the
\* sprite atlas
clear_scene(w) ==
    IF w.sprite_atlas # "None"
    THEN set_sprite_atlas(World_new, w.sprite_atlas)
    ELSE World_new

\* EditorApp::rebuild_editor_state, the entries of entity_map from the
\* i-th on in the order the map iterates them: row-major cells, ten a row
RECURSIVE RebuildFrom(_, _, _, _)
RebuildFrom(entity_map, order, i, ed) ==
    IF i > Len(order) THEN ed
    ELSE LET entity == entity_map[order[i]]
             cell == <<(i - 1) % 10, (i - 1) \div 10>>
         IN  RebuildFrom(entity_map, order, i + 1,
                 [ed EXCEPT !.grid_entities = Insert(ed.grid_entities, cell, entity),
                            !.root_entities = Append(ed.root_entities, entity)])

\* EditorApp::rebuild_editor_state
rebuild_editor_state(entity_map, order, ed) ==
    RebuildFrom(entity_map, order, 1, ed)

-----------------------------------------------------------------------------
(* The World's public operations as steps of a caller.  E, P, V and B are   *)
(* the identifiers, positions, velocities and solver outcomes of the run.  *)

\* last_op names the operations the properties below observe, with the
\* identifier and the value they were called with; every other call is
\* recorded as "call"
NoOp == [op |-> "new", e |-> -1]

Op(name, entity) == [op |-> name, e |-> entity]

\* an observed step_physics with the time the solver was advanced by
Stepped(dt) == [op |-> "step_physics", e |-> -1, dt |-> dt]

\* an observed call with the value it was given
Obs(name, entity, value) == [op |-> name, e |-> entity, value |-> value]

\* the scheduler is idle and the editor untouched while the World's
\* operations are called directly; a query iterator borrows the World,
\* so none is alive when the World is written
Idle ==
    /\ query_out' = <<>>
    /\ UNCHANGED <<schedVars, editorVars, tick_start>>

Init ==
    /\ world = World_new
    /\ systems = <<>>
    /\ pc = "idle"
    /\ idx = 1
    /\ cur_dt = 0
    /\ calls = <<>>
    /\ reported = "none"
    /\ ticks = 0
    /\ query_out = <<>>
    /\ grid_entities = EmptyMap
    /\ root_entities = <<>>
    /\ selected_entity = None
    /\ current_scene_path = None
    /\ parent_child_map = EmptyMap
    /\ game_state = "Stopped"
    /\ created = <<>>
    /\ last_op = NoOp
    /\ solved = EmptyMap
    /\ tick_start = World_new

Call_create_entity ==
    /\ world.next_entity_id < MaxEntities
    /\ world' = create_entity(world)
    /\ created' = Append(created, world.next_entity_id)
    /\ last_op' = Op("create_entity", world.next_entity_id)
    /\ solved' = EmptyMap
    /\ Idle

\* World::create_entity in a build with overflow checks, the counter at
\* u32::MAX: `self.next_entity_id += 1` panics and the call returns nothing
Call_create_entity_overflows ==
    /\ world.next_entity_id = ENTITY_MAX
    /\ pc' = "panicked"
    /\ last_op' = Op("create_entity_panic", -1)
    /\ solved' = EmptyMap
    /\ query_out' = <<>>
    /\ UNCHANGED <<world, systems, idx, cur_dt, calls, reported, ticks,
                   editorVars, created, tick_start>>

Call_add_position(E, P) ==
    \E e \in E, p \in P :
        /\ world' = add_position(world, e, p)
        /\ last_op' = Obs("add_position", e, p)
        /\ solved' = EmptyMap
        /\ UNCHANGED created
        /\ Idle

Call_add_velocity(E, V) ==
    \E e \in E, v \in V :
        /\ world' = add_velocity(world, e, v)
        /\ last_op' = Obs("add_velocity", e, v)
        /\ solved' = EmptyMap
        /\ UNCHANGED created
        /\ Idle

Call_add_sprite(E) ==
    \E e \in E :
        /\ world' = add_sprite(world, e, TheSprite)
        /\ last_op' = Obs("add_sprite", e, TheSprite)
        /\ solved' = EmptyMap
        /\ UNCHANGED created
        /\ Idle

Call_add_texture_sprite(E) ==
    \E e \in E :
        /\ world' = add_texture_sprite(world, e, TheTextureSprite)
        /\ last_op' = Obs("add_texture_sprite", e, TheTextureSprite)
        /\ solved' = EmptyMap
        /\ UNCHANGED created
        /\ Idle

Call_add_physics_body(E, P) ==
    \E e \in E, p \in P :
        /\ world.next_handle <= MaxBodies
        /\ world' = add_physics_body(world, e, p)
        /\ last_op' = Obs("add_physics_body", e, p)
        /\ solved' = EmptyMap
        /\ UNCHANGED created
        /\ Idle

Call_set_physics_velocity(E, V) ==
    \E e \in E, v \in V :
        /\ world' = set_physics_velocity(world, e, v)
        /\ last_op' = Obs("set_physics_velocity", e, v)
        /\ solved' = EmptyMap
        /\ UNCHANGED created
        /\ Idle

Call_step_physics(B) ==
    \E sv \in SolverOutcomes(world, B) :
        /\ world' = step_physics(world, sv)
        /\ last_op' = Stepped(integration_parameters_dt)
        /\ solved' = sv
        /\ UNCHANGED created
        /\ Idle

Call_remove_entity(E) ==
    \E e \in E :
        /\ world' = remove_entity(world, e)
        /\ last_op' = Op("remove_entity", e)
        /\ solved' = EmptyMap
        /\ UNCHANGED created
        /\ Idle

Call_remove_physics_body(E) ==
    \E e \in E :
        /\ world' = remove_physics_body(world, e)
        /\ last_op' = Op("call", -1)
        /\ solved' = EmptyMap
        /\ UNCHANGED created
        /\ Idle

\* Scheduler::add_system, called between update calls (the record of the
\* last call, which ran the stages registered until then, is dropped)
Call_add_system(N) ==
    \E name \in N :
        /\ pc \in {"idle", "returned"}
        /\ system_count(systems) < MaxStages
        /\ systems' = add_system(systems, name)
        /\ pc' = "idle"
        /\ calls' = <<>>
        /\ last_op' = Op("call", -1)
        /\ solved' = EmptyMap
        /\ UNCHANGED <<world, idx, cur_dt, reported, ticks, query_out,
                       editorVars, created, tick_start>>

\* Scheduler::add_query_system, called between update calls
Call_add_query_system(N) ==
    \E name \in N :
        /\ pc \in {"idle", "returned"}
        /\ system_count(systems) < MaxStages
        /\ systems' = add_query_system(systems, name)
        /\ pc' = "idle"
        /\ calls' = <<>>
        /\ last_op' = Op("call", -1)
        /\ solved' = EmptyMap
        /\ UNCHANGED <<world, idx, cur_dt, reported, ticks, query_out,
                       editorVars, created, tick_start>>

\* Scheduler::update is entered with dt
Update_enter(D) ==
    \E dt \in D :
        /\ pc \in {"idle", "returned"}
        /\ ticks < MaxTicks
        /\ pc' = "running"
        /\ idx' = 1
        /\ cur_dt' = dt
        /\ calls' = <<>>
        /\ ticks' = ticks + 1
        /\ tick_start' = world
        /\ last_op' = Op("call", -1)
        /\ solved' = EmptyMap
        /\ UNCHANGED <<world, systems, reported, query_out, editorVars, created>>

\* one iteration of the loop of Scheduler::update: the stage returns
Update_stage(B) ==
    /\ pc = "running"
    /\ ~LoopDone(systems, idx)
    /\ LET s == NextSystem(systems, idx)
       IN  /\ s.name # "FailingStage"
           /\ \E sv \in (IF s.name = "PhysicsSystem"
                         THEN SolverOutcomes(world, B)
                         ELSE {world.physics_world}),
                 order \in (IF s.name = "MovementSystem"
                            THEN Orders(DOMAIN world.positions)
                            ELSE {<<>>}) :
                  /\ world' = StageUpdate(s, world, StageDt(cur_dt), sv, order)
                  /\ solved' = IF s.name = "PhysicsSystem" THEN sv ELSE EmptyMap
                  /\ last_op' = IF s.name = "PhysicsSystem"
                                THEN Stepped(PhysicsSystem_solver_dt(StageDt(cur_dt)))
                                ELSE Op("call", -1)
           /\ calls' = Append(calls, [slot |-> s.slot, name |-> s.name,
                                      dt |-> StageDt(cur_dt)])
    /\ idx' = idx + 1
    /\ UNCHANGED <<systems, pc, cur_dt, reported, ticks, query_out, editorVars,
                   created, tick_start>>

\* one iteration of the loop of Scheduler::update: the stage panics, and
\* the panic unwinds through update (nothing in update catches it or
\* adds to it)
Update_stage_panics ==
    /\ pc = "running"
    /\ ~LoopDone(systems, idx)
    /\ LET s == NextSystem(systems, idx)
       IN  /\ s.name = "FailingStage"
           /\ calls' = Append(calls, [slot |-> s.slot, name |-> s.name,
                                      dt |-> StageDt(cur_dt)])
    /\ pc' = "panicked"
    /\ last_op' = Op("call", -1)
    /\ solved' = EmptyMap
    /\ UNCHANGED <<world, systems, idx, cur_dt, reported, ticks, query_out,
                   editorVars, created, tick_start>>

\* Scheduler::update returns
Update_return ==
    /\ pc = "running"
    /\ LoopDone(systems, idx)
    /\ pc' = "returned"
    /\ last_op' = Op("call", -1)
    /\ solved' = EmptyMap
    /\ UNCHANGED <<world, systems, idx, cur_dt, calls, reported, ticks, query_out,
                   editorVars, created, tick_start>>

\* MovementQuery::query(&world), iterated to its end by a caller
Call_MovementQuery ==
    \E order \in Orders(DOMAIN world.positions) :
        /\ query_out' = MovementQuery(world, order)
        /\ last_op' = Op("query", -1)
        /\ solved' = EmptyMap
        /\ UNCHANGED <<world, schedVars, editorVars, created, tick_start>>

\* RenderableQuery::query(&world), iterated to its end by a caller
Call_RenderableQuery ==
    \E order \in Orders(DOMAIN world.positions) :
        /\ query_out' = RenderableQuery(world, order)
        /\ last_op' = Op("renderable_query", -1)
        /\ solved' = EmptyMap
        /\ UNCHANGED <<world, schedVars, editorVars, created, tick_start>>

\* World::add_sprite with a sprite of the caller's choice
Call_add_sprite_of(E, S) ==
    \E e \in E, sprite \in S :
        /\ world' = add_sprite(world, e, sprite)
        /\ last_op' = Obs("add_sprite", e, sprite)
        /\ solved' = EmptyMap
        /\ UNCHANGED created
        /\ Idle

\* World::set_sprite_atlas, as the editor does once its atlas is loaded
Call_set_sprite_atlas ==
    /\ world.sprite_atlas = "None"
    /\ world' = set_sprite_atlas(world, "atlas")
    /\ last_op' = Op("call", -1)
    /\ solved' = EmptyMap
    /\ UNCHANGED created
    /\ Idle

\* EditorApp::create_entity_at_grid
Call_create_entity_at_grid(G) ==
    \E cell \in G :
        /\ world.next_entity_id < MaxEntities
        /\ world.next_handle <= MaxBodies
        /\ LET entity == world.next_entity_id
               at == Vec(cell[1] * grid_size, cell[2] * grid_size)
               w1 == add_position(create_entity(world), entity, at)
               w2 == add_velocity(w1, entity,
                                  Vec(((entity % 3) - 1) * 10,
                                      ((entity % 5) - 2) * 10))
               w3 == add_texture_sprite(w2, entity, TheTextureSprite)
           IN  /\ world' = add_physics_body(w3, entity, at)
               /\ grid_entities' = Insert(grid_entities, cell, entity)
               /\ root_entities' = Append(root_entities, entity)
               /\ created' = Append(created, entity)
               /\ last_op' = Op("create_entity", entity)
        /\ solved' = EmptyMap
        /\ UNCHANGED <<schedVars, query_out, selected_entity, current_scene_path,
                       parent_child_map, game_state, tick_start>>

\* a click on an entity of the hierarchy panel selects it
Call_select(E) ==
    \E e \in E :
        /\ e < world.next_entity_id
        /\ selected_entity' = Some(e)
        /\ last_op' = Op("call", -1)
        /\ solved' = EmptyMap
        /\ UNCHANGED <<world, schedVars, query_out, grid_entities, root_entities,
                       current_scene_path, parent_child_map, game_state,
                       created, tick_start>>

\* EditorApp::delete_entity
Call_delete_entity(E) ==
    \E e \in E :
        /\ world' = remove_entity(world, e)
        /\ grid_entities' = [c \in {c \in DOMAIN grid_entities :
                                        grid_entities[c] # e} |-> grid_entities[c]]
        /\ root_entities' = Retain(root_entities, e)
        /\ parent_child_map' = Remove(parent_child_map, e)
        /\ last_op' = Op("remove_entity", e)
        /\ solved' = EmptyMap
        /\ UNCHANGED <<schedVars, query_out, selected_entity, current_scene_path,
                       game_state, created, tick_start>>

\* File > New Scene: EditorApp::clear_scene; the call is observed with
\* the World it found
Call_new_scene ==
    /\ world' = clear_scene(world)
    /\ grid_entities' = EmptyMap
    /\ root_entities' = <<>>
    /\ selected_entity' = None
    /\ parent_child_map' = EmptyMap
    /\ created' = <<>>
    /\ last_op' = [op |-> "new_scene", e |-> -1, before |-> world]
    /\ solved' = EmptyMap
    /\ UNCHANGED <<schedVars, query_out, current_scene_path, game_state,
                   tick_start>>

\* EditorApp::load_scene(path) where reading and decoding the file fails:
\* clear_scene has run, the error is returned by `?`
Call_load_scene_err ==
    /\ world' = clear_scene(world)
    /\ grid_entities' = EmptyMap
    /\ root_entities' = <<>>
    /\ selected_entity' = None
    /\ parent_child_map' = EmptyMap
    /\ created' = <<>>
    /\ last_op' = Op("load_scene_err", -1)
    /\ solved' = EmptyMap
    /\ UNCHANGED <<schedVars, query_out, current_scene_path, game_state,
                   tick_start>>

\* EditorApp::load_scene(path) where the file decodes to one of Scenes
Call_load_scene_ok(Paths, Scenes) ==
    \E scene_path \in Paths, scene \in Scenes :
        LET r == spawn_scene(scene, clear_scene(world))
        IN  \E order \in Orders(DOMAIN r.entity_map) :
                LET ed == rebuild_editor_state(r.entity_map, order,
                              Editor(EmptyMap, <<>>, None, current_scene_path))
                IN  /\ world' = r.world
                    /\ grid_entities' = ed.grid_entities
                    /\ root_entities' = ed.root_entities
                    /\ selected_entity' = ed.selected_entity
                    /\ current_scene_path' = Some(scene_path)
                    /\ parent_child_map' = EmptyMap
                    /\ created' = [k \in 1..Len(scene.entities) |-> k - 1]
                    /\ last_op' = Op("load_scene_ok", -1)
                    /\ solved' = EmptyMap
                    /\ UNCHANGED <<schedVars, query_out, game_state, tick_start>>

\* SceneLoader::spawn_scene(&scene, &mut world), called on the World as
\* it is; the call is observed with its scene, the World it found and the
\* entity_map it returned
Call_spawn_scene(Scenes) ==
    \E scene \in Scenes :
        /\ world.next_entity_id + Len(scene.entities) <= MaxEntities
        /\ LET r == spawn_scene(scene, world)
           IN  /\ world' = r.world
               /\ last_op' = [op |-> "spawn_scene", e |-> -1, scene |-> scene,
                              before |-> world, entity_map |-> r.entity_map]
               /\ created' = created \o
                     [k \in 1..Len(scene.entities) |-> world.next_entity_id + k - 1]
        /\ solved' = EmptyMap
        /\ Idle

\* a scene is written to a file and read back (SceneLoader::save_to_ron /
\* save_to_json, then load_from_ron / load_from_json); the result does
\* not depend on what was saved before, so a run saves one scene
Call_save_and_load(Scenes) ==
    \E scene \in Scenes :
        /\ last_op.op # "save_and_load"
        /\ last_op' = [op |-> "save_and_load", e |-> -1, scene |-> scene,
                       decoded |-> Deserialize_Scene(Serialize_Scene(scene))]
        /\ solved' = EmptyMap
        /\ UNCHANGED <<world, schedVars, query_out, editorVars, created,
                       tick_start>>

\* a Position row is written in place, through get_position_mut
Call_write_position(E, P) ==
    \E e \in E, p \in P :
        /\ e \in DOMAIN world.positions
        /\ world' = write_position(world, e, p)
        /\ last_op' = Obs("write_position", e, p)
        /\ solved' = EmptyMap
        /\ UNCHANGED created
        /\ Idle

\* a Velocity row is written in place, through get_velocity_mut
Call_write_velocity(E, V) ==
    \E e \in E, v \in V :
        /\ e \in DOMAIN world.velocities
        /\ world' = write_velocity(world, e, v)
        /\ last_op' = Obs("write_velocity", e, v)
        /\ solved' = EmptyMap
        /\ UNCHANGED created
        /\ Idle

\* EditorApp::new: the World with its atlas, and the scheduler with the
\* editor's three stages
Call_EditorApp_new ==
    /\ systems = <<>>
    /\ world = World_new
    /\ world' = set_sprite_atlas(World_new, "atlas")
    /\ systems' = add_query_system(
                      add_system(add_system(<<>>, "VelocitySyncSystem"),
                                 "PhysicsSystem"),
                      "MovementSystem")
    /\ last_op' = Op("call", -1)
    /\ solved' = EmptyMap
    /\ UNCHANGED <<pc, idx, cur_dt, calls, reported, ticks, query_out, editorVars,
                   created, tick_start>>

\* a click on Play / Pause / Resume (menu bar or toolbar), between the
\* simulations of two frames
Call_toggle_play_state ==
    /\ pc \in {"idle", "returned"}
    /\ game_state' = toggle_play_state(game_state)
    /\ last_op' = Op("toggle_play_state", -1)
    /\ solved' = EmptyMap
    /\ UNCHANGED <<world, schedVars, query_out, grid_entities, root_entities,
                   selected_entity, current_scene_path, parent_child_map,
                   created, tick_start>>

\* a click on Stop (menu bar or toolbar)
Call_stop ==
    /\ pc \in {"idle", "returned"}
    /\ game_state' = "Stopped"
    /\ last_op' = Op("stop", -1)
    /\ solved' = EmptyMap
    /\ UNCHANGED <<world, schedVars, query_out, grid_entities, root_entities,
                   selected_entity, current_scene_path, parent_child_map,
                   created, tick_start>>

\* eframe::App::update of EditorApp, a frame in which the game is
\* simulated: scheduler.update(&mut self.world, dt) is entered
Frame_simulated(D) ==
    /\ FrameSimulates(game_state)
    /\ Update_enter(D)

\* eframe::App::update of EditorApp, a frame in which it is not: only the
\* timer is reset
Frame_idle ==
    /\ pc \in {"idle", "returned"}
    /\ ~FrameSimulates(game_state)
    /\ last_op' = Op("frame", -1)
    /\ solved' = EmptyMap
    /\ UNCHANGED <<world, schedVars, query_out, editorVars, created, tick_start>>

\* EditorApp::draw_position_component for the selected entity, its
\* Position dragged to a new value
Call_edit_position(P) ==
    \E p \in P :
        /\ IsSome(selected_entity)
        /\ Unwrap(selected_entity) \in DOMAIN world.positions
        /\ world' = draw_position_component(world, Unwrap(selected_entity), p)
        /\ last_op' = Obs("edit_position", Unwrap(selected_entity), p)
        /\ solved' = EmptyMap
        /\ query_out' = <<>>
        /\ UNCHANGED <<schedVars, editorVars, created, tick_start>>

\* EditorApp::remove_physics_body for the selected entity, from the
\* button the properties panel shows while the entity has a body
Call_remove_selected_body ==
    /\ IsSome(selected_entity)
    /\ Unwrap(selected_entity) \in DOMAIN world.entity_to_body
    /\ world' = remove_physics_body(world, Unwrap(selected_entity))
    /\ last_op' = Op("call", -1)
    /\ solved' = EmptyMap
    /\ query_out' = <<>>
    /\ UNCHANGED <<schedVars, editorVars, created, tick_start>>

\* Spec: every operation on every identifier, in any order, with one
\* position inside the play field and one velocity
Next ==
    \/ Call_create_entity
    \/ Call_add_position(EntityIds, InsidePts)
    \/ Call_add_velocity(EntityIds, OneVel)
    \/ Call_add_sprite(EntityIds)
    \/ Call_add_texture_sprite(EntityIds)
    \/ Call_add_physics_body(EntityIds, InsidePts)
    \/ Call_set_physics_velocity(EntityIds, OneVel)
    \/ Call_step_physics(BodyStates(InsidePts, OneVel))
    \/ Call_remove_entity(EntityIds)
    \/ Call_remove_physics_body(EntityIds)

Spec == Init /\ [][Next]_vars

\* SpecPhys: the physics step on the whole play field: one entity, given a
\* body when it has none (as the editor's add_component_to_entity does),
\* placed and moved by the solver inside and beyond every margin
NextPhys ==
    \/ Call_create_entity
    \/ Call_add_position(FirstId, Pts)
    \/ Call_add_velocity(FirstId, Vels)
    \/ (DOMAIN world.entity_to_body = {} /\ Call_add_physics_body(FirstId, Pts))
    \/ Call_set_physics_velocity(FirstId, Vels)
    \/ Call_step_physics(BodyStates(Pts, Vels))
    \/ Call_remove_entity(FirstId)

SpecPhys == Init /\ [][NextPhys]_vars

\* the dt values update is called with
Dts == {1, 2}

\* the World is set up between update calls, never while one runs
BetweenUpdates == pc \in {"idle", "returned"}

\* SpecSched: a World of one entity is built, stages are registered in
\* any order and update is called
NextSched ==
    \/ (BetweenUpdates /\ ticks = 0 /\ Call_create_entity)
    \/ (BetweenUpdates /\ ticks = 0 /\ Call_add_position(FirstId, InsidePts))
    \/ (BetweenUpdates /\ ticks = 0 /\ Call_add_velocity(FirstId, OneVel))
    \/ (BetweenUpdates /\ ticks = 0 /\ DOMAIN world.entity_to_body = {}
            /\ Call_add_physics_body(FirstId, InsidePts))
    \/ Call_add_system(SystemNames)
    \/ Call_add_query_system(QuerySystemNames)
    \/ Update_enter(Dts)
    \/ Update_stage(BodyStates(InsidePts, OneVel))
    \/ Update_stage_panics
    \/ Update_return

SpecSched == Init /\ [][NextSched]_vars

\* the identifiers and values of the tables the query is run on
QueryIds == 1..MaxQueryIds
QueryPts == {Vec(400, 300), Vec(10, 300)}

\* SpecQuery: the positions and velocities tables get and lose rows in
\* any order, and the Position+Velocity query is run on what they hold
NextQuery ==
    \/ Call_add_position(QueryIds, QueryPts)
    \/ Call_add_velocity(QueryIds, OneVel)
    \/ Call_remove_entity(QueryIds)
    \/ Call_MovementQuery

SpecQuery == Init /\ [][NextQuery]_vars

\* the grid cells the editor's user clicks and the scene files there are
GridCells == {<<1, 2>>, <<12, 9>>}
ScenePaths == {"level.ron", "level.json"}

\* the entities a scene file describes: one with every component, one
\* with a Position and the name "entity_1", one with a body and no
\* Position, one with a Velocity alone
SceneEntities ==
    {EntityData(None, Some(Vec(400, 300)), Some(Vec(5, 5)),
                Some(TheTextureSprite), Some(TheBodyData)),
     EntityData(Some(IndexName(1)), Some(Vec(400, 300)), None, None, None),
     EntityData(None, None, None, Some(TheTextureSprite), Some(TheBodyData)),
     EntityData(None, None, Some(Vec(5, 5)), None, None)}

\* the scenes the files decode to
Scenes ==
    {[name |-> "level", description |-> None, entities |-> es] :
        es \in UNION {[1..n -> SceneEntities] : n \in 0..MaxSceneEntities}}

\* SpecEditor: the editor's user places, selects and deletes entities and
\* loads scene files, some of which do not decode
NextEditor ==
    \/ Call_set_sprite_atlas
    \/ Call_create_entity_at_grid(GridCells)
    \/ Call_select(EntityIds)
    \/ Call_delete_entity(EntityIds)
    \/ Call_new_scene
    \/ Call_load_scene_err
    \/ Call_load_scene_ok(ScenePaths, Scenes)

SpecEditor == Init /\ [][NextEditor]_vars

\* SpecScene: scenes are spawned into a World that entities are created
\* in and removed from
NextScene ==
    \/ Call_create_entity
    \/ Call_remove_entity(EntityIds)
    \/ Call_spawn_scene(Scenes)

SpecScene == Init /\ [][NextScene]_vars

\* SpecTables: rows are added to the four component tables, for created
\* and never created identifiers, with values that differ from call to call
NextTables ==
    \/ Call_create_entity
    \/ Call_add_position(EntityIds, QueryPts)
    \/ Call_add_velocity(EntityIds, Vels)
    \/ Call_add_sprite(EntityIds)
    \/ Call_add_texture_sprite(EntityIds)
    \/ Call_remove_entity(EntityIds)

SpecTables == Init /\ [][NextTables]_vars

\* the entities of the scenes that are saved: every combination of present
\* and absent fields, with two texture sprites and two bodies
SavedEntities ==
    {EntityData(None, p, v, t, b) :
        p \in {None, Some(Vec(100, 100))},
        v \in {None, Some(ZeroVec)},
        t \in {None, Some(TheTextureSprite),
               Some([atlas_name |-> "player", scale |-> 2])},
        b \in {None, Some(TheBodyData),
               Some([size |-> 32, body_type |-> "Fixed"])}}

SavedScenes ==
    {Scene(n, d, es) :
        n \in {"level", "arena"},
        d \in {None, Some("a scene")},
        es \in UNION {[1..k -> SavedEntities] : k \in 0..MaxSceneEntities}}

\* SpecFiles: scenes are saved and loaded back
NextFiles == Call_save_and_load(SavedScenes)

SpecFiles == Init /\ [][NextFiles]_vars

\* the editor has been constructed and no frame is being simulated
EditorReady == systems # <<>> /\ BetweenUpdates

\* what the solver leaves the bodies of the editor's runs as
PlayBodies == BodyStates({Vec(384, 288), Vec(10, 288)}, {Vec(0, -10)})

\* SpecPlay: the editor is constructed, entities are placed on its grid,
\* cached rows are written in place and frames are simulated with the
\* editor's pipeline
NextPlay ==
    \/ Call_EditorApp_new
    \/ (EditorReady /\ Call_create_entity_at_grid(GridCells))
    \/ (EditorReady /\ Call_write_position(FirstId, InsidePts))
    \/ (EditorReady /\ Call_write_velocity(FirstId, OneVel))
    \/ (systems # <<>> /\ Update_enter({1}))
    \/ Update_stage(PlayBodies)
    \/ Update_return

SpecPlay == Init /\ [][NextPlay]_vars

\* SpecInspector: entities are placed on the grid and selected, the
\* selected entity's Position is edited and its body removed in the
\* properties panel, and the physics is stepped
NextInspector ==
    \/ Call_create_entity_at_grid(GridCells)
    \/ Call_select(EntityIds)
    \/ Call_edit_position(Pts)
    \/ Call_remove_selected_body
    \/ Call_step_physics(PlayBodies)

SpecInspector == Init /\ [][NextInspector]_vars

\* the velocities of the rows the movement stage reads
MoveVels == {Vec(5, 5), Vec(-5, 0)}

\* SpecMove: rows and bodies are given to two identifiers, the movement
\* stage is registered (any number of times) and update is called
NextMove ==
    \/ (BetweenUpdates /\ ticks = 0 /\ Call_add_position(EntityIds, InsidePts))
    \/ (BetweenUpdates /\ ticks = 0 /\ Call_add_velocity(EntityIds, MoveVels))
    \/ (BetweenUpdates /\ ticks = 0 /\ DOMAIN world.entity_to_body = {}
            /\ Call_add_physics_body(EntityIds, InsidePts))
    \/ (ticks = 0 /\ Call_add_query_system({"MovementSystem"}))
    \/ Update_enter(Dts)
    \/ Update_stage({})
    \/ Update_return

SpecMove == Init /\ [][NextMove]_vars

\* the sprites of the tables the three-component query is run on
QuerySprites == {TheSprite, [color |-> "blue", size |-> 16]}

\* SpecRender: the positions, velocities and sprites tables get and lose
\* rows in any order, and the Position+Velocity+Sprite query is run on
\* what they hold
NextRender ==
    \/ Call_add_position(QueryIds, QueryPts)
    \/ Call_add_velocity(QueryIds, OneVel)
    \/ Call_add_sprite_of(QueryIds, QuerySprites)
    \/ Call_remove_entity(QueryIds)
    \/ Call_RenderableQuery

SpecRender == Init /\ [][NextRender]_vars

\* the counter of a World on which create_entity has returned every
\* identifier but the last MaxEntities + 1 of the type
AllocStart == ENTITY_MAX - MaxEntities

\* the World after AllocStart (as u32) calls of create_entity and nothing
\* else; created records the identifiers returned from then on
InitAlloc ==
    /\ world = [World_new EXCEPT !.next_entity_id = AllocStart]
    /\ systems = <<>>
    /\ pc = "idle"
    /\ idx = 1
    /\ cur_dt = 0
    /\ calls = <<>>
    /\ reported = "none"
    /\ ticks = 0
    /\ query_out = <<>>
    /\ grid_entities = EmptyMap
    /\ root_entities = <<>>
    /\ selected_entity = None
    /\ current_scene_path = None
    /\ parent_child_map = EmptyMap
    /\ game_state = "Stopped"
    /\ created = <<>>
    /\ last_op = NoOp
    /\ solved = EmptyMap
    /\ tick_start = World_new

\* the identifiers on either side of the end of the type
EndIds == {ENTITY_MAX, 0}

\* SpecAlloc: the allocator is driven across the end of the identifier
\* type, in either build, while rows are given to and taken from the
\* identifiers around it; a panic ends the run
NextAlloc ==
    \/ (pc = "idle" /\ Call_create_entity)
    \/ (pc = "idle" /\ Call_create_entity_overflows)
    \/ (pc = "idle" /\ Call_add_position(EndIds, QueryPts))
    \/ (pc = "idle" /\ Call_remove_entity(EndIds))

SpecAlloc == InitAlloc /\ [][NextAlloc]_vars

\* SpecStep: entity 0 gets rows and a body, the physics stage is
\* registered (any number of times) and update is called with either dt;
\* the solver leaves the body inside or beyond the margins
NextStep ==
    \/ (BetweenUpdates /\ ticks = 0 /\ Call_create_entity)
    \/ (BetweenUpdates /\ ticks = 0 /\ Call_add_position(FirstId, InsidePts))
    \/ (BetweenUpdates /\ ticks = 0 /\ Call_add_velocity(FirstId, OneVel))
    \/ (BetweenUpdates /\ ticks = 0 /\ DOMAIN world.entity_to_body = {}
            /\ Call_add_physics_body(FirstId, InsidePts))
    \/ (ticks = 0 /\ Call_add_system({"PhysicsSystem"}))
    \/ Update_enter(Dts)
    \/ Update_stage(BodyStates(Pts, OneVel))
    \/ Update_return

SpecStep == Init /\ [][NextStep]_vars

\* SpecGame: the editor is constructed, entities are placed on its grid,
\* Play / Pause / Resume and Stop are clicked and frames go by
NextGame ==
    \/ Call_EditorApp_new
    \/ (EditorReady /\ Call_create_entity_at_grid(GridCells))
    \/ (EditorReady /\ Call_toggle_play_state)
    \/ (EditorReady /\ Call_stop)
    \/ (EditorReady /\ Frame_simulated(Dts))
    \/ (EditorReady /\ Frame_idle)
    \/ Update_stage(PlayBodies)
    \/ Update_return

SpecGame == Init /\ [][NextGame]_vars

-----------------------------------------------------------------------------
(* Properties of the World *)

\* the entity has no row in any component table
NoRows(w, e) ==
    /\ get_position(w, e) = None
    /\ get_velocity(w, e) = None
    /\ get_sprite(w, e) = None
    /\ get_texture_sprite(w, e) = None

\* the bodies of the authority that the reverse map attributes to e
BodiesOf(w, e) ==
    {h \in DOMAIN w.physics_world :
        h \in DOMAIN w.body_to_entity /\ w.body_to_entity[h] = e}

\* C1: in every reachable state the forward map sends e to h iff the
\* reverse map sends h to e, and no entity has more than one body in the
\* authority.
C1_MapsMatch ==
    /\ \A e \in DOMAIN world.entity_to_body :
          LET h == world.entity_to_body[e]
          IN  h \in DOMAIN world.body_to_entity /\ world.body_to_entity[h] = e
    /\ \A h \in DOMAIN world.body_to_entity :
          LET e == world.body_to_entity[h]
          IN  e \in DOMAIN world.entity_to_body /\ world.entity_to_body[e] = h
    /\ \A e \in EntityIds : Cardinality(BodiesOf(world, e)) <= 1

\* C2: right after remove_entity(e) the entity has no row in any table, no
\* entry in either handle map and no body left in the authority.
C2_RemoveComplete ==
    last_op.op = "remove_entity" =>
        /\ NoRows(world, last_op.e)
        /\ last_op.e \notin DOMAIN world.entity_to_body
        /\ \A h \in DOMAIN world.body_to_entity :
              world.body_to_entity[h] # last_op.e
        /\ BodiesOf(world, last_op.e) = {}

\* the cached rows of every entity with a body equal the body's state
CacheEqualsAuthority(w) ==
    \A e \in DOMAIN w.entity_to_body :
        LET h == w.entity_to_body[e]
        IN  h \in DOMAIN w.physics_world =>
              /\ e \in DOMAIN w.positions =>
                    w.positions[e] = w.physics_world[h].translation
              /\ e \in DOMAIN w.velocities =>
                    w.velocities[e] = w.physics_world[h].linvel

\* C3: right after step_physics every entity with a body has its cached
\* Position equal to the body's translation and its cached Velocity equal
\* to the body's linear velocity.  Stated for the steps in which the solver
\* left every body as it was, so that the step consists of the sync and
\* the boundary correction alone.
C3_CacheEqualsAuthority ==
    [][(last_op'.op = "step_physics" /\ solved' = world.physics_world)
          => CacheEqualsAuthority(world')]_vars

Sign(v) == IF v > 0 THEN 1 ELSE IF v < 0 THEN -1 ELSE 0

\* the margin a coordinate left by the solver violates: "low", "high", "no"
ViolatesX(b) ==
    IF b.translation.x < MARGIN THEN "low"
    ELSE IF b.translation.x > SCREEN_WIDTH - MARGIN THEN "high" ELSE "no"
ViolatesY(b) ==
    IF b.translation.y < MARGIN THEN "low"
    ELSE IF b.translation.y > SCREEN_HEIGHT - MARGIN THEN "high" ELSE "no"

\* C4 as claimed: a coordinate that violates a margin after the solver step
\* is set to the margin value and its velocity component gets the sign
\* opposite to the one it had before the step.  Stated for the steps in
\* which the solver left the body's velocity as it was, so that only the
\* boundary correction can have changed the sign.
C4_SignFlipped ==
    [][last_op'.op = "step_physics" =>
        \A h \in MappedHandles(world') \cap DOMAIN world.physics_world :
            LET pre  == world.physics_world[h]
                sol  == solved'[h]
                post == world'.physics_world[h]
            IN  sol.linvel = pre.linvel =>
                  /\ ViolatesX(sol) # "no" =>
                        /\ post.translation.x \in {MARGIN, SCREEN_WIDTH - MARGIN}
                        /\ Sign(post.linvel.x) = -Sign(pre.linvel.x)
                  /\ ViolatesY(sol) # "no" =>
                        /\ post.translation.y \in {MARGIN, SCREEN_HEIGHT - MARGIN}
                        /\ Sign(post.linvel.y) = -Sign(pre.linvel.y)]_vars

\* C4 as amended: a coordinate that violates a margin after the solver step
\* is set to exactly that margin, and its velocity component keeps the
\* magnitude the solver left and points into the play field: its sign is
\* flipped only if the body was moving outward.
C4_ClampedAndInward ==
    last_op.op = "step_physics" =>
        \A h \in MappedHandles(world) \cap DOMAIN solved :
            LET sol  == solved[h]
                post == world.physics_world[h]
            IN  /\ ViolatesX(sol) = "low" =>
                      /\ post.translation.x = MARGIN
                      /\ post.linvel.x = Abs(sol.linvel.x)
                /\ ViolatesX(sol) = "high" =>
                      /\ post.translation.x = SCREEN_WIDTH - MARGIN
                      /\ post.linvel.x = -Abs(sol.linvel.x)
                /\ ViolatesY(sol) = "low" =>
                      /\ post.translation.y = MARGIN
                      /\ post.linvel.y = Abs(sol.linvel.y)
                /\ ViolatesY(sol) = "high" =>
                      /\ post.translation.y = SCREEN_HEIGHT - MARGIN
                      /\ post.linvel.y = -Abs(sol.linvel.y)

\* a step has clamped a body that was beyond the left margin and already
\* moving inward, and one that was beyond the bottom margin moving outward
C4_Witness ==
    /\ last_op.op = "step_physics"
    /\ \E h \in MappedHandles(world) \cap DOMAIN solved :
          \/ /\ ViolatesX(solved[h]) = "low"
             /\ solved[h].linvel.x > 0
             /\ world.physics_world[h].translation.x = MARGIN
             /\ world.physics_world[h].linvel.x > 0
          \/ /\ ViolatesY(solved[h]) = "high"
             /\ solved[h].linvel.y > 0
             /\ world.physics_world[h].translation.y = SCREEN_HEIGHT - MARGIN
             /\ world.physics_world[h].linvel.y < 0

-----------------------------------------------------------------------------
(* Scheduler *)

\* the stage invocations a complete update call makes: each registered
\* stage once, in registration order, with the dt of the call
ExpectedCalls(sys, dt) ==
    [k \in 1..Len(sys) |-> [slot |-> k, name |-> sys[k].name, dt |-> dt]]

\* C6: Scheduler::update invokes every registered stage exactly once per
\* call, in registration order (add_system and add_query_system
\* interleaved, duplicates included), with the dt of the call: while the
\* call runs the invocations made are a prefix of the registration order,
\* each stage being invoked only after the one before it has returned, and
\* when the call returns they are all of it.
C6_EveryStageOnceInOrder ==
    /\ pc \in {"running", "returned"} =>
          /\ Len(calls) = idx - 1
          /\ Len(calls) <= Len(systems)
          /\ \A k \in 1..Len(calls) : calls[k] = ExpectedCalls(systems, cur_dt)[k]
    /\ pc = "returned" => calls = ExpectedCalls(systems, cur_dt)

\* C6 witness: an update call with dt = 2 has returned from a scheduler
\* whose registrations interleave add_system and add_query_system and
\* hold the same System twice
C6_Witness ==
    /\ pc = "returned"
    /\ cur_dt = 2
    /\ system_names(systems) = <<"InputSystem", "MovementSystem", "InputSystem">>
    /\ ~systems[1].adapter /\ systems[2].adapter /\ ~systems[3].adapter
    /\ Len(calls) = 3

\* Vector2 addition
Plus(p, v) == Vec(p.x + v.x, p.y + v.y)

\* entity 0 had a Position when the update call began
HadPosition == 0 \in DOMAIN tick_start.positions

\* C7: a stage sees the writes of the stages registered before it.  With
\* the stage setting Velocity(0) = (5, 0) registered before the movement
\* stage, one update(world, 1) moves Position(0) by exactly (5, 0); with
\* the two registered the other way round and Velocity(0) not (5, 0) at
\* the start (absent included), Position(0) ends elsewhere.
C7_StageSeesEarlierWrites ==
    (pc = "returned" /\ cur_dt = 1 /\ HadPosition) =>
        /\ system_names(systems) = <<"SetVelocityStage", "MovementSystem">> =>
              world.positions[0] = Plus(tick_start.positions[0], StageAVelocity)
        /\ (/\ system_names(systems) = <<"MovementSystem", "SetVelocityStage">>
            /\ (0 \in DOMAIN tick_start.velocities =>
                    tick_start.velocities[0] # StageAVelocity)) =>
              world.positions[0] # Plus(tick_start.positions[0], StageAVelocity)

\* C7 witness: update(world, 1) has returned with the velocity-setting
\* stage before the movement stage, entity 0 having had the Velocity
\* (5, 5) when the call began
C7_Witness ==
    /\ pc = "returned"
    /\ cur_dt = 1
    /\ HadPosition
    /\ system_names(systems) = <<"SetVelocityStage", "MovementSystem">>
    /\ 0 \in DOMAIN tick_start.velocities
    /\ tick_start.velocities[0] = Vec(5, 5)
    /\ world.positions[0] = Vec(405, 300)

\* C10: a stage failure aborts the update call at that stage (no later
\* stage runs, update does not return normally) and reaches the caller of
\* update together with the identity of the stage that failed.
C10_FailureNamesStage ==
    pc = "panicked" =>
        /\ Len(calls) = idx
        /\ calls[idx].name = "FailingStage"
        /\ reported = systems[idx].name

-----------------------------------------------------------------------------
(* Query layer *)

\* the entities a query result holds
Yielded(q) == {q[i].entity : i \in 1..Len(q)}

\* C8: whatever the positions and velocities tables hold, MovementQuery
\* yields each entity with a row in both tables exactly once, with that
\* entity's own Position and Velocity, and no entity missing from either
\* table (for {1: pos+vel, 2: pos, 3: vel} exactly {1}).
C8_QueryYieldsIntersection ==
    last_op.op = "query" =>
        LET both == DOMAIN world.positions \cap DOMAIN world.velocities
        IN  /\ Yielded(query_out) = both
            /\ Len(query_out) = Cardinality(both)
            /\ \A i \in 1..Len(query_out) :
                  /\ query_out[i].position = world.positions[query_out[i].entity]
                  /\ query_out[i].velocity = world.velocities[query_out[i].entity]

\* C8 witness: the query has run on {1: pos+vel, 2: pos, 3: vel} and
\* yielded entity 1 alone
C8_Witness ==
    /\ last_op.op = "query"
    /\ DOMAIN world.positions = {1, 2}
    /\ DOMAIN world.velocities = {1, 3}
    /\ world.positions[1] # world.positions[2]
    /\ Len(query_out) = 1
    /\ query_out[1].entity = 1

-----------------------------------------------------------------------------
(* Editor *)

\* C9: when decoding the scene file fails, load_scene returns the error
\* and leaves the World exactly as it was before the call: the same
\* component rows, bodies, handle maps and next entity id.
C9_FailedLoadKeepsWorld ==
    [][last_op'.op = "load_scene_err" => world' = world]_vars

-----------------------------------------------------------------------------
(* Scenes *)

\* the name spawn_scene files the i-th bundle (from 1) under
BundleName(scene, i) ==
    IF IsSome(scene.entities[i].name)
    THEN Unwrap(scene.entities[i].name)
    ELSE IndexName(i - 1)

\* entity carries the components of the bundle and no others
CarriesBundle(w, entity, entity_data) ==
    /\ (entity \in DOMAIN w.positions) = IsSome(entity_data.position)
    /\ IsSome(entity_data.position) =>
          w.positions[entity] = Unwrap(entity_data.position)
    /\ (entity \in DOMAIN w.velocities) = IsSome(entity_data.velocity)
    /\ IsSome(entity_data.velocity) =>
          w.velocities[entity] = Unwrap(entity_data.velocity)
    /\ (entity \in DOMAIN w.texture_sprites) = IsSome(entity_data.texture_sprite)
    /\ IsSome(entity_data.texture_sprite) =>
          w.texture_sprites[entity] = Unwrap(entity_data.texture_sprite)
    /\ entity \notin DOMAIN w.sprites
    /\ (entity \in DOMAIN w.entity_to_body) = IsSome(entity_data.physics_body)
    /\ Cardinality({h \in DOMAIN w.body_to_entity : w.body_to_entity[h] = entity})
          = IF IsSome(entity_data.physics_body) THEN 1 ELSE 0

\* C11: spawn_scene on a scene of n bundles creates exactly n entities,
\* one per bundle in bundle order with consecutive identifiers; entity i
\* carries exactly the components of bundle i, with its values; and the
\* returned map sends the name of every bundle (given, or "entity_<index>")
\* to the entity created for it, so that it has n entries.
C11_SpawnSceneComplete ==
    last_op.op = "spawn_scene" =>
        LET scene == last_op.scene
            n == Len(scene.entities)
            first == last_op.before.next_entity_id
        IN  /\ world.next_entity_id = first + n
            /\ \A i \in 1..n :
                  /\ CarriesBundle(world, first + i - 1, scene.entities[i])
                  /\ BundleName(scene, i) \in DOMAIN last_op.entity_map
                  /\ last_op.entity_map[BundleName(scene, i)] = first + i - 1
            /\ Cardinality(DOMAIN last_op.entity_map) = n

-----------------------------------------------------------------------------
(* Physics bridge *)

\* the handles of the bodies w2 holds and w1 does not
NewBodies(w1, w2) == DOMAIN w2.physics_world \ DOMAIN w1.physics_world

\* C12: add_physics_body(e, position, ..) creates exactly one new body, at
\* the position argument and with Velocity(e) as linear velocity if e has
\* a Velocity row and zero otherwise, and registers e -> handle and
\* handle -> e; the Position and Velocity tables are as before, whatever
\* Position row e has.
C12_AddPhysicsBody ==
    [][last_op'.op = "add_physics_body" =>
        LET e == last_op'.e
            initial == IF e \in DOMAIN world.velocities
                       THEN world.velocities[e] ELSE ZeroVec
        IN  /\ Cardinality(NewBodies(world, world')) = 1
            /\ DOMAIN world.physics_world \subseteq DOMAIN world'.physics_world
            /\ \A h \in DOMAIN world.physics_world :
                  world'.physics_world[h] = world.physics_world[h]
            /\ \A h \in NewBodies(world, world') :
                  /\ world'.physics_world[h] = Body(last_op'.value, initial)
                  /\ world'.entity_to_body[e] = h
                  /\ world'.body_to_entity[h] = e
            /\ world'.positions = world.positions
            /\ world'.velocities = world.velocities]_vars

\* C12 witness: a body has just been added for entity 0, which has the
\* Velocity (-5, -5) and a Position row other than the position argument
C12_Witness ==
    /\ last_op.op = "add_physics_body"
    /\ last_op.e = 0
    /\ 0 \in DOMAIN world.positions
    /\ world.positions[0] # last_op.value
    /\ 0 \in DOMAIN world.velocities
    /\ world.velocities[0] = Vec(-5, -5)
    /\ world.physics_world[world.entity_to_body[0]] = Body(last_op.value, Vec(-5, -5))

\* the component tables, the handle maps and the id counter of w1 and w2
\* are the same
SameTablesAndMaps(w1, w2) ==
    /\ w1.next_entity_id = w2.next_entity_id
    /\ w1.positions = w2.positions
    /\ w1.velocities = w2.velocities
    /\ w1.sprites = w2.sprites
    /\ w1.texture_sprites = w2.texture_sprites
    /\ w1.entity_to_body = w2.entity_to_body
    /\ w1.body_to_entity = w2.body_to_entity

\* C13: set_physics_velocity(e, v) changes nothing when e has no body;
\* when e has one it sets that body's linear velocity to v and leaves
\* every Position and Velocity row, every other body and both handle maps
\* as they were.
C13_SetPhysicsVelocity ==
    [][last_op'.op = "set_physics_velocity" =>
        IF last_op'.e \notin DOMAIN world.entity_to_body
        THEN world' = world
        ELSE LET body_handle == world.entity_to_body[last_op'.e]
             IN  /\ SameTablesAndMaps(world, world')
                 /\ DOMAIN world'.physics_world = DOMAIN world.physics_world
                 /\ world'.physics_world[body_handle].linvel = last_op'.value
                 /\ world'.physics_world[body_handle].translation
                       = world.physics_world[body_handle].translation
                 /\ \A h \in DOMAIN world.physics_world \ {body_handle} :
                       world'.physics_world[h] = world.physics_world[h]]_vars

\* C13 witness: set_physics_velocity(0, (5, 5)) has acted on a World of
\* two bodies: the body of entity 0, which has no Velocity row, moves at
\* (5, 5) and the body of entity 1 is at rest
C13_Witness ==
    /\ last_op = Obs("set_physics_velocity", 0, Vec(5, 5))
    /\ DOMAIN world.entity_to_body = {0, 1}
    /\ 0 \notin DOMAIN world.velocities
    /\ world.physics_world[world.entity_to_body[0]].linvel = Vec(5, 5)
    /\ world.physics_world[world.entity_to_body[1]].linvel = ZeroVec

-----------------------------------------------------------------------------
(* Component tables *)

AddOps == {"add_position", "add_velocity", "add_sprite", "add_texture_sprite"}

\* the table the operation op writes
TableOf(w, op) ==
    CASE op = "add_position"       -> w.positions
      [] op = "add_velocity"       -> w.velocities
      [] op = "add_sprite"         -> w.sprites
      [] op = "add_texture_sprite" -> w.texture_sprites

\* the operation op applied to w
ApplyAdd(w, op, e, v) ==
    CASE op = "add_position"       -> add_position(w, e, v)
      [] op = "add_velocity"       -> add_velocity(w, e, v)
      [] op = "add_sprite"         -> add_sprite(w, e, v)
      [] op = "add_texture_sprite" -> add_texture_sprite(w, e, v)

\* C14: add_<component>(e, v) leaves exactly one row for e, holding v
\* (inserted or overwritten); the same call once more changes nothing;
\* the rows of other entities, the other tables, the bodies, the maps and
\* the id counter are as before; and it does so for any identifier,
\* created or not.
C14_AddComponent ==
    [][last_op'.op \in AddOps =>
        LET op == last_op'.op
            e == last_op'.e
            v == last_op'.value
        IN  /\ DOMAIN TableOf(world', op) = DOMAIN TableOf(world, op) \cup {e}
            /\ TableOf(world', op)[e] = v
            /\ \A o \in DOMAIN TableOf(world, op) \ {e} :
                  TableOf(world', op)[o] = TableOf(world, op)[o]
            /\ \A t \in AddOps \ {op} : TableOf(world', t) = TableOf(world, t)
            /\ world'.physics_world = world.physics_world
            /\ world'.entity_to_body = world.entity_to_body
            /\ world'.body_to_entity = world.body_to_entity
            /\ world'.next_entity_id = world.next_entity_id
            /\ ApplyAdd(world', op, e, v) = world']_vars

\* C14 witness: add_position(1, (10, 300)) has acted although no entity 1
\* was ever created, beside the row of entity 0
C14_Witness ==
    /\ last_op = Obs("add_position", 1, Vec(10, 300))
    /\ world.next_entity_id <= 1
    /\ created \in {<<>>, <<0>>}
    /\ world.positions[1] = Vec(10, 300)
    /\ 0 \in DOMAIN world.positions
    /\ world.positions[0] = Vec(400, 300)

-----------------------------------------------------------------------------
(* Misuse *)

MisuseOps == {"remove_entity", "set_physics_velocity"}

\* C15: for an identifier that was never created or was already
\* removed, every get_<component> returns None, remove_entity and
\* set_physics_velocity leave the whole World unchanged, and remove_entity
\* applied twice leaves what it left the first time.
C15_MisuseIsNoOp ==
    [][/\ \A e \in EntityIds : e >= world.next_entity_id => NoRows(world, e)
       /\ (last_op'.op \in MisuseOps /\ last_op'.e >= world.next_entity_id) =>
              world' = world
       /\ last_op.op = "remove_entity" =>
              /\ NoRows(world, last_op.e)
              /\ (last_op'.op \in MisuseOps /\ last_op'.e = last_op.e) =>
                     world' = world]_vars

\* C16: after any sequence of World operations, the identifier
\* create_entity returns has, at that moment, no row in the positions,
\* velocities, sprites and texture_sprites tables and no entry in the
\* handle maps.
C16_FreshEntityIsBare ==
    last_op.op = "create_entity" =>
        /\ NoRows(world, last_op.e)
        /\ last_op.e \notin DOMAIN world.entity_to_body
        /\ \A h \in DOMAIN world.body_to_entity : world.body_to_entity[h] # last_op.e

-----------------------------------------------------------------------------
(* Scene files *)

\* the optional fields of a record that are present
Present(d) ==
    {f \in {"position", "velocity", "texture_sprite", "physics_body"} : IsSome(d[f])}

\* C17: scene round trip.  Decoding the encoding of a scene succeeds and
\* yields the same name, as many entity records in the same order, and for
\* each record the same present optional fields with equal values
\* (atlas_name, scale, body size and body type included).
C17_SceneRoundTrip ==
    last_op.op = "save_and_load" =>
        /\ IsSome(last_op.decoded)
        /\ LET s1 == last_op.scene
               s2 == Unwrap(last_op.decoded)
           IN  /\ s2.name = s1.name
               /\ Len(s2.entities) = Len(s1.entities)
               /\ \A i \in 1..Len(s1.entities) :
                     /\ Present(s2.entities[i]) = Present(s1.entities[i])
                     /\ \A f \in Present(s1.entities[i]) :
                           s2.entities[i][f] = s1.entities[i][f]

\* C17 witness: a scene of two records has been saved and loaded, the
\* first with all four fields (scale 2, a Fixed body of size 32), the
\* second with none
C17_Witness ==
    /\ last_op.op = "save_and_load"
    /\ IsSome(last_op.decoded)
    /\ Len(last_op.scene.entities) = 2
    /\ Present(last_op.scene.entities[1])
          = {"position", "velocity", "texture_sprite", "physics_body"}
    /\ Unwrap(last_op.scene.entities[1].texture_sprite).scale = 2
    /\ Unwrap(last_op.scene.entities[1].physics_body).body_type = "Fixed"
    /\ Present(last_op.scene.entities[2]) = {}
    /\ Unwrap(Unwrap(last_op.decoded).entities[1].texture_sprite).scale = 2

-----------------------------------------------------------------------------
(* Cache and authority under the pipelines *)

\* the entities that have a body and a Velocity row
MovingBodies(w) ==
    {e \in DOMAIN w.velocities : e \in DOMAIN w.entity_to_body}

\* the step is a stage of the running update call
StageStep == pc = "running" /\ calls' # calls

\* C18: a value written directly to the cached Velocity row of a
\* physics-backed entity does not make the body follow it.  Under the
\* pipelines the repository registers, no stage other than the solver's
\* takes a body's linear velocity from the cache, and the sync of the next
\* physics stage replaces the cached value with the body's velocity.
C18_BodyIgnoresCachedVelocity ==
    [][StageStep =>
        \A e \in MovingBodies(world) :
            LET h == world.entity_to_body[e]
            IN  IF Last(calls').name = "PhysicsSystem"
                THEN world'.velocities[e] = solved'[h].linvel
                ELSE world'.physics_world[h].linvel
                        = world.physics_world[h].linvel]_vars

\* the entities that have a body and a Position row
PlacedBodies(w) ==
    {e \in DOMAIN w.positions : e \in DOMAIN w.entity_to_body}

\* C19: a Position row of a physics-backed entity written directly does
\* not change the body, and the next step_physics overwrites the row with
\* the translation the authority holds for the entity when the step
\* copies it, so that the written value lasts at most until then.
C19_WrittenPositionOverwritten ==
    [][/\ last_op'.op = "write_position" =>
              world'.physics_world = world.physics_world
       /\ last_op'.op = "step_physics" =>
              \A e \in PlacedBodies(world) :
                  world'.positions[e]
                     = solved'[world.entity_to_body[e]].translation]_vars

\* C19 witness: the frame began with Position(0) written to (400, 300)
\* while the body was elsewhere; the physics stage has run and Position(0)
\* is the body's translation again
C19_Witness ==
    /\ pc = "running"
    /\ calls # <<>>
    /\ Last(calls).name = "PhysicsSystem"
    /\ 0 \in PlacedBodies(tick_start)
    /\ tick_start.positions[0] = Vec(400, 300)
    /\ tick_start.physics_world[tick_start.entity_to_body[0]].translation
          # Vec(400, 300)
    /\ world.positions[0] # Vec(400, 300)
    /\ world.positions[0] = solved[world.entity_to_body[0]].translation

\* C20: an editor position edit is pushed into the authority at once.
\* After the edit the Position row holds the edited value and so does the
\* translation of the entity's body, if it has one; a step_physics that
\* follows, in which the solver leaves the bodies where they are, leaves
\* the edited value in the row.
C20_EditReachesAuthority ==
    [][/\ last_op'.op = "edit_position" =>
              /\ world'.positions[last_op'.e] = last_op'.value
              /\ last_op'.e \in DOMAIN world'.entity_to_body =>
                    world'.physics_world[world'.entity_to_body[last_op'.e]].translation
                       = last_op'.value
       /\ (/\ last_op.op = "edit_position"
           /\ last_op'.op = "step_physics"
           /\ solved' = world.physics_world) =>
              world'.positions[last_op.e] = last_op.value]_vars

\* C20 witness: Position(0) was edited to (400, 300), where the solver
\* puts no body, and after a step_physics the row and the body of entity 0
\* are both there
C20_Witness ==
    /\ last_op.op = "step_physics"
    /\ 0 \in PlacedBodies(world)
    /\ world.positions[0] = Vec(400, 300)
    /\ world.physics_world[world.entity_to_body[0]].translation = Vec(400, 300)

-----------------------------------------------------------------------------
(* Movement stage *)

\* the step is a run of the movement stage
MovementRan ==
    /\ Len(calls') = Len(calls) + 1
    /\ Last(calls').name = "MovementSystem"

\* the entities the movement stage moves in the World w
Movers(w) == DOMAIN w.positions \cap DOMAIN w.velocities

\* C21: the movement stage is collect-then-apply.  In one run with step dt
\* exactly the entities with a Position and a Velocity row at the start
\* get Position + Velocity * dt, every other row stays, no row comes or
\* goes, the velocities, the handle maps and the bodies are unchanged, and
\* every iteration order of the table gives this same World.
C21_MovementCollectThenApply ==
    [][MovementRan =>
          LET dt == Last(calls').dt
          IN  /\ DOMAIN world'.positions = DOMAIN world.positions
              /\ \A e \in DOMAIN world.positions :
                    world'.positions[e] =
                        IF e \in Movers(world)
                        THEN Vec(world.positions[e].x + world.velocities[e].x * dt,
                                 world.positions[e].y + world.velocities[e].y * dt)
                        ELSE world.positions[e]
              /\ world' = [world EXCEPT !.positions = world'.positions]
              /\ \A order \in Orders(DOMAIN world.positions) :
                    MovementSystem_update(world, dt, order) = world']_vars

\* C21 witness: one run with dt = 2 moved entity 0 and entity 1 by their
\* own velocities, entity 0 having a body that stayed where it was
C21_Witness ==
    /\ calls # <<>>
    /\ Last(calls).name = "MovementSystem"
    /\ Last(calls).dt = 2
    /\ Len(calls) = 1
    /\ DOMAIN tick_start.positions = {0, 1}
    /\ tick_start.velocities = [e \in {0, 1} |-> IF e = 0 THEN Vec(5, 5) ELSE Vec(-5, 0)]
    /\ world.positions = [e \in {0, 1} |-> IF e = 0 THEN Vec(410, 310) ELSE Vec(390, 300)]
    /\ 0 \in DOMAIN world.entity_to_body
    /\ world.physics_world[world.entity_to_body[0]].translation = Vec(400, 300)

-----------------------------------------------------------------------------
(* Arena *)

\* the translation t lies within the margins of the play field
InArena(t) ==
    /\ MARGIN <= t.x /\ t.x <= SCREEN_WIDTH - MARGIN
    /\ MARGIN <= t.y /\ t.y <= SCREEN_HEIGHT - MARGIN

\* C22: after step_physics every body that entity_to_body maps an entity
\* to lies within 16 <= x <= 784 and 16 <= y <= 584; a coordinate that was
\* clamped in the step has a velocity component pointing into the arena
\* (>= 0 at the left and top margins, <= 0 at the right and bottom ones);
\* a body the solver left within the margins is as the solver left it.
C22_BodiesInArena ==
    last_op.op = "step_physics" =>
        \A h \in MappedHandles(world) \cap DOMAIN solved :
            LET sol  == solved[h]
                post == world.physics_world[h]
            IN  /\ InArena(post.translation)
                /\ ViolatesX(sol) = "low"  => post.linvel.x >= 0
                /\ ViolatesX(sol) = "high" => post.linvel.x <= 0
                /\ ViolatesY(sol) = "low"  => post.linvel.y >= 0
                /\ ViolatesY(sol) = "high" => post.linvel.y <= 0
                /\ InArena(sol.translation) => post = sol

\* C22 witness: a step in which the solver left the body of entity 0
\* beyond the right and bottom margins moving outward, and the step
\* ended with it at (784, 584) moving inward
C22_Witness ==
    /\ last_op.op = "step_physics"
    /\ 0 \in DOMAIN world.entity_to_body
    /\ world.entity_to_body[0] \in DOMAIN solved
    /\ solved[world.entity_to_body[0]] = Body(Vec(790, 590), Vec(5, 5))
    /\ world.physics_world[world.entity_to_body[0]]
          = Body(Vec(SCREEN_WIDTH - MARGIN, SCREEN_HEIGHT - MARGIN), Vec(-5, -5))

-----------------------------------------------------------------------------
(* Three-component query *)

\* C23: whatever the positions, velocities and sprites tables hold,
\* RenderableQuery yields each entity with a row in all three tables
\* exactly once, with that entity's own Position, Velocity and Sprite, and
\* no entity missing from any of the three tables.
C23_RenderableYieldsIntersection ==
    last_op.op = "renderable_query" =>
        LET all == (DOMAIN world.positions \cap DOMAIN world.velocities)
                       \cap DOMAIN world.sprites
        IN  /\ Yielded(query_out) = all
            /\ Len(query_out) = Cardinality(all)
            /\ \A i \in 1..Len(query_out) :
                  /\ query_out[i].position = world.positions[query_out[i].entity]
                  /\ query_out[i].velocity = world.velocities[query_out[i].entity]
                  /\ query_out[i].sprite = world.sprites[query_out[i].entity]

\* C23 witness: the query has run on {1: pos+vel+sprite, 2: pos+vel,
\* 3: pos+sprite (another sprite)} and yielded entity 1 alone
C23_Witness ==
    /\ last_op.op = "renderable_query"
    /\ DOMAIN world.positions = {1, 2, 3}
    /\ DOMAIN world.velocities = {1, 2}
    /\ DOMAIN world.sprites = {1, 3}
    /\ world.sprites[1] # world.sprites[3]
    /\ Len(query_out) = 1
    /\ query_out[1].entity = 1

-----------------------------------------------------------------------------
(* Allocator at the end of the identifier type *)

\* create_entity has returned id before: in this run, or in the calls
\* that brought the counter to where the run began
ReturnedBefore(id) ==
    \/ \E i \in 1..Len(created) : created[i] = id
    \/ U32Less(id, AllocStart)

\* C24: the allocator does not silently wrap.  create_entity never returns
\* an identifier that an earlier create_entity on the same World
\* returned, also when the counter has reached u32::MAX.
C24_NoSilentWrap ==
    [][last_op'.op = "create_entity" => ~ReturnedBefore(last_op'.e)]_vars

-----------------------------------------------------------------------------
(* Physics stage *)

\* the step is a run of the physics stage
PhysicsRan ==
    /\ Len(calls') = Len(calls) + 1
    /\ Last(calls').name = "PhysicsSystem"

\* the number of entries of the sequence q that are named name
RECURSIVE CountNamed(_, _)
CountNamed(q, name) ==
    IF q = <<>> THEN 0
    ELSE (IF Last(q).name = name THEN 1 ELSE 0)
            + CountNamed(SubSeq(q, 1, Len(q) - 1), name)

\* C25: a run of the physics stage advances the solver by the one fixed
\* step of 1/60 s whatever dt update was called with, then syncs the
\* cache and corrects the boundaries once each, in this order; an update
\* call that returns has run the stage once for each time it is registered.
C25_OneFixedStep ==
    [][/\ PhysicsRan =>
              /\ last_op'.op = "step_physics"
              /\ last_op'.dt = integration_parameters_dt
              /\ DOMAIN solved' = DOMAIN world.physics_world
              /\ world' = apply_boundary_constraints(
                              sync_positions_from_physics(
                                  [world EXCEPT !.physics_world = solved']))
       /\ pc' = "returned" =>
              CountNamed(calls', "PhysicsSystem")
                  = CountNamed(systems', "PhysicsSystem")]_vars

\* C25 witness: update(world, 2) has returned with the physics stage
\* registered once; the one step left the body of entity 0 clamped at the
\* left margin and the cached Position where the solver had put it
C25_Witness ==
    /\ pc = "returned"
    /\ cur_dt = 2
    /\ Len(systems) = 1
    /\ Len(calls) = 1
    /\ Last(calls).name = "PhysicsSystem"
    /\ 0 \in PlacedBodies(world)
    /\ world.physics_world[world.entity_to_body[0]].translation = Vec(MARGIN, 300)
    /\ world.positions[0] = Vec(10, 300)

-----------------------------------------------------------------------------
(* Frame of step_physics *)

\* the rows the table t holds for the entities of E
RowsOf(t, E) == [e \in DOMAIN t \cap E |-> t[e]]

\* C26: step_physics inserts and removes no row: the key sets of the
\* positions, velocities, sprites and texture_sprites tables and of both
\* handle maps are the same before and after; in particular an entity with
\* a body and no Position (or no Velocity) row has none after the step;
\* the rows of the entities without a body are unchanged.
C26_StepKeepsKeys ==
    [][last_op'.op = "step_physics" =>
          LET bodiless == (DOMAIN world.positions \cup DOMAIN world.velocities)
                              \ DOMAIN world.entity_to_body
          IN  /\ DOMAIN world'.positions = DOMAIN world.positions
              /\ DOMAIN world'.velocities = DOMAIN world.velocities
              /\ DOMAIN world'.sprites = DOMAIN world.sprites
              /\ DOMAIN world'.texture_sprites = DOMAIN world.texture_sprites
              /\ DOMAIN world'.entity_to_body = DOMAIN world.entity_to_body
              /\ DOMAIN world'.body_to_entity = DOMAIN world.body_to_entity
              /\ RowsOf(world'.positions, bodiless) = RowsOf(world.positions, bodiless)
              /\ RowsOf(world'.velocities, bodiless) = RowsOf(world.velocities, bodiless)]_vars

\* C26 witness: after a step_physics entity 0, which has a body, has a
\* Velocity row and no Position row, and entity 1, which has no body, has
\* its Position and Velocity rows
C26_Witness ==
    /\ last_op.op = "step_physics"
    /\ 0 \in DOMAIN world.entity_to_body
    /\ 0 \in DOMAIN world.velocities
    /\ 0 \notin DOMAIN world.positions
    /\ 1 \notin DOMAIN world.entity_to_body
    /\ 1 \in DOMAIN world.positions
    /\ 1 \in DOMAIN world.velocities

-----------------------------------------------------------------------------
(* Bodies of a spawned scene *)

\* C27: spawn_scene applies a bundle's velocity before it creates the
\* bundle's body: the body of a bundle with a velocity and a physics_body
\* starts with the bundle's velocity as linear velocity; the body of a
\* bundle with a physics_body and no position is created at (0, 0), and
\* the entity has no Position row.
C27_SpawnedBodies ==
    last_op.op = "spawn_scene" =>
        LET scene == last_op.scene
            first == last_op.before.next_entity_id
        IN  \A i \in 1..Len(scene.entities) :
                LET entity_data == scene.entities[i]
                    entity == first + i - 1
                IN  IsSome(entity_data.physics_body) =>
                      /\ entity \in DOMAIN world.entity_to_body
                      /\ world.entity_to_body[entity] \in DOMAIN world.physics_world
                      /\ LET body == world.physics_world[world.entity_to_body[entity]]
                         IN  /\ IsSome(entity_data.velocity) =>
                                   body.linvel = Unwrap(entity_data.velocity)
                             /\ ~IsSome(entity_data.position) =>
                                   /\ body.translation = ZeroVec
                                   /\ entity \notin DOMAIN world.positions

\* C27 witness: a scene of a bundle with velocity (5, 5), a position and a
\* body, and a bundle with a body and no position, has been spawned: the
\* first body moves at (5, 5), the second lies at (0, 0) and its entity
\* has no Position row
C27_Witness ==
    /\ last_op.op = "spawn_scene"
    /\ Len(last_op.scene.entities) = 2
    /\ last_op.scene.entities[1].velocity = Some(Vec(5, 5))
    /\ IsSome(last_op.scene.entities[1].physics_body)
    /\ last_op.scene.entities[2].position = None
    /\ IsSome(last_op.scene.entities[2].physics_body)
    /\ world.physics_world[world.entity_to_body[0]].linvel = Vec(5, 5)
    /\ world.physics_world[world.entity_to_body[1]].translation = ZeroVec
    /\ 1 \notin DOMAIN world.positions

-----------------------------------------------------------------------------
(* Game state of the editor *)

\* C28: toggle_play_state takes Stopped to Playing, Playing to Paused and
\* Paused to Playing, and Stop leads to Stopped from every state; a frame
\* enters the scheduler's update if and only if the state is Playing, so
\* that no update call is made, and the World is not changed by a frame,
\* while the state is Stopped or Paused.
C28_PlayStateMachine ==
    [][/\ last_op'.op = "toggle_play_state" =>
              \/ game_state = "Stopped" /\ game_state' = "Playing"
              \/ game_state = "Playing" /\ game_state' = "Paused"
              \/ game_state = "Paused"  /\ game_state' = "Playing"
       /\ last_op'.op = "stop" => game_state' = "Stopped"
       /\ ticks' # ticks => game_state = "Playing" /\ pc' = "running"
       /\ last_op'.op = "frame" =>
              /\ game_state \in {"Stopped", "Paused"}
              /\ world' = world
              /\ ticks' = ticks
       /\ pc' = "running" => game_state' = "Playing"]_vars

\* C28 witness: the game was played for a frame, paused, and a frame has
\* gone by without an update call
C28_Witness ==
    /\ last_op.op = "frame"
    /\ game_state = "Paused"
    /\ pc = "returned"
    /\ ticks = 1
    /\ world # tick_start

-----------------------------------------------------------------------------
(* Cleared scene *)

\* C29: after the editor's clear_scene (New Scene, or the first step of
\* load_scene, seen alone when the load fails) the World has no component
\* rows, no bodies and empty handle maps, has the sprite atlas it had
\* before, and its identifier counter is 0 again; the editor's grid,
\* root-entity list, parent-child map and selection are empty.
C29_ClearedScene ==
    [][last_op'.op \in {"new_scene", "load_scene_err"} =>
          /\ \A e \in EntityIds : NoRows(world', e)
          /\ DOMAIN world'.positions = {}
          /\ DOMAIN world'.velocities = {}
          /\ DOMAIN world'.sprites = {}
          /\ DOMAIN world'.texture_sprites = {}
          /\ DOMAIN world'.physics_world = {}
          /\ DOMAIN world'.entity_to_body = {}
          /\ DOMAIN world'.body_to_entity = {}
          /\ world'.sprite_atlas = world.sprite_atlas
          /\ world'.next_entity_id = 0
          /\ entity_count(world') = 0
          /\ grid_entities' = EmptyMap
          /\ root_entities' = <<>>
          /\ parent_child_map' = EmptyMap
          /\ selected_entity' = None]_vars

\* C29 witness: New Scene was chosen in an editor with a sprite atlas and
\* two entities with bodies; the atlas is still there and the counter is 0
C29_Witness ==
    /\ last_op.op = "new_scene"
    /\ last_op.before.next_entity_id = 2
    /\ Cardinality(DOMAIN last_op.before.physics_world) = 2
    /\ last_op.before.sprite_atlas = "atlas"
    /\ world.sprite_atlas = "atlas"
    /\ world.next_entity_id = 0
    /\ DOMAIN world.positions = {}

-----------------------------------------------------------------------------
(* Entity count *)

\* C30: entity_count() is the number of create_entity calls made on the
\* World: a create_entity call takes it to the next larger count, one
\* more than before, and no other operation (add_*, add_physics_body,
\* step_physics, remove_entity) changes it.
C30_EntityCountIsCalls ==
    [][IF last_op'.op = "create_entity"
       THEN /\ U32Less(entity_count(world), entity_count(world'))
            /\ entity_count(world') - entity_count(world) = 1
       ELSE entity_count(world') = entity_count(world)]_vars

====
